---- MODULE Spec2Model ----
(***************************************************************************)
(* A model of the scan-and-evaluate pipeline of DAT (Dev Audit Tool):      *)
(*   - dat/scanner.py      should_ignore, count_lines, scan_repository     *)
(*   - dat/utils.py        is_binary                                       *)
(*   - dat/rules/engine.py Policy.evaluate, DEFAULT_RULES                  *)
(*   - dat/cli.py          write_report_file, the --diff step of main      *)
(*   - dat/rules.py        evaluate_rules                                  *)
(*   - dat/logging/audit.py  _ensure_key, append_encrypted_log             *)
(*   - tools/dat2lrc.py    is_text_file                                    *)
(*                                                                         *)
(* Strings (paths, glob patterns, file contents, lines) are sequences of   *)
(* one-character strings, so that glob matching, substring search,         *)
(* whitespace stripping, line splitting and lexicographic sorting are      *)
(* computed character by character as the Python code computes them.       *)
(***************************************************************************)
EXTENDS Integers, Sequences, FiniteSets, TLC

VARIABLES
    \* ---- the file system and the arguments of scan_repository ----
    rootState,        \* "ok" | "missing" | "unreadable": what os.walk finds at root
    fs,               \* absolute file path -> what stat/read/libmagic give for it
    ignore_patterns,  \* list of glob patterns
    max_lines,        \* integer >= 0
    max_size,         \* integer >= 0
    safe,             \* boolean
    deep,             \* boolean
    \* ---- the position of scan_repository in its loops ----
    pc,               \* "start" | "walk" | "done" | "written"
    stack,            \* directories os.walk still has to list (top-down)
    current,          \* the directory os.walk yielded last
    dirnames,         \* its sub-directories, after the in-place filter of line 83
    todo,             \* its file names not processed yet
    result,           \* the ScanResult being built
    yielded,          \* every file path os.walk has yielded in a filenames list
    \* ---- write_report_file ----
    run,              \* 1 for the first scan of the tree, 2 for the second
    now,              \* the clock read by datetime.utcnow()
    outputs,          \* the payloads written so far, oldest first
    \* ---- Policy.evaluate ----
    ev_pc, ev_policy, ev_path, ev_lines, ev_out,
    \* ---- the --diff step of main ----
    df_pc, df_previous, df_current, df_message, df_exit,
    \* ---- load_default_policy ----
    lp_pc, lp_extra, lp_policy,
    \* ---- main and run_scan ----
    m_pc,             \* the step main is at; "exited" once the process has its exit code
    m_args,           \* what argv asks for
    m_config,         \* the LRC integration config file
    m_schema,         \* run_scan's schema
    m_rules,          \* the rules extracted from the schema
    m_report,         \* the report: path -> number of violations
    m_events,         \* what happened on the way
    m_exit,           \* the exit code
    \* ---- the file selection of the command line ----
    cli_args,         \* folder, single_file, all, ignore and the flags deep, fast, audit
    \* ---- atomic_write, its concurrent callers and the readers of the target ----
    aw_files,         \* inode -> the bytes it holds (0: the target's first file; w: writer w's temp file)
    aw_present,       \* the target path exists
    aw_target,        \* the inode the target path names
    aw_pc,            \* writer -> step of its atomic_write call
    aw_last,          \* the writer whose os.replace came last (0: none yet)
    aw_rd,            \* reader -> [pc, inode, buf]
    \* ---- is_text_file of tools/dat2lrc.py ----
    tx_pc,            \* "call" | "done"
    tx_file,          \* the file: its suffix, what stat/open/guess_type give, its bytes
    tx_out,           \* the value returned
    \* ---- evaluate_rules of dat/rules.py ----
    br_pc,            \* "call" | "done"
    br_fs,            \* relative path -> what read_text gives for it
    br_files,         \* the FileRecords handed to evaluate_rules
    br_out,           \* the findings returned
    \* ---- append_encrypted_log of dat/logging/audit.py and its callers ----
    au_exists,        \* auditlog.key exists
    au_keydata,       \* the bytes of auditlog.key (0: none yet; k: the key k)
    au_writes,        \* how many times a key was written to auditlog.key
    au_log,           \* the lines of auditlog.jsonl, oldest first
    au_proc           \* process -> [pc, key, calls]

scanVars == <<rootState, fs, ignore_patterns, max_lines, max_size, safe, deep,
              pc, stack, current, dirnames, todo, result, yielded,
              run, now, outputs>>
evalVars == <<ev_pc, ev_policy, ev_path, ev_lines, ev_out>>
diffVars == <<df_pc, df_previous, df_current, df_message, df_exit>>
policyVars == <<lp_pc, lp_extra, lp_policy>>
mainVars == <<m_pc, m_args, m_config, m_schema, m_rules, m_report, m_events, m_exit>>
cliVars == <<cli_args>>
awVars == <<aw_files, aw_present, aw_target, aw_pc, aw_last, aw_rd>>
textVars == <<tx_pc, tx_file, tx_out>>
builtinVars == <<br_pc, br_fs, br_files, br_out>>
auditVars == <<au_exists, au_keydata, au_writes, au_log, au_proc>>
extVars == <<textVars, builtinVars, auditVars>>
auxVars == <<policyVars, mainVars, cliVars, awVars, extVars>>
vars == <<scanVars, evalVars, diffVars, auxVars>>

-----------------------------------------------------------------------------
(* Generic helpers on sequences.                                           *)

Range(s) == {s[i] : i \in 1..Len(s)}

Min(a, b) == IF a <= b THEN a ELSE b

\* All orderings of a finite set, as sequences without repetition.
Perms(S) ==
    {p \in [1..Cardinality(S) -> S] : \A i, j \in 1..Cardinality(S) : p[i] = p[j] => i = j}

\* str.startswith / the prefix test behind Path.relative_to.
IsPrefix(p, s) == Len(p) <= Len(s) /\ SubSeq(s, 1, Len(p)) = p

\* Code points of the characters the model's strings are made of; Python
\* compares strings code point by code point.
Code(c) ==
    CASE c = "NUL" -> 0
      [] c = "\n" -> 10
      [] c = " " -> 32
      [] c = "!" -> 33
      [] c = "#" -> 35
      [] c = "*" -> 42
      [] c = "." -> 46
      [] c = "/" -> 47
      [] c = ":" -> 58
      [] c = "=" -> 61
      [] c = "?" -> 63
      [] c = "A" -> 65
      [] c = "D" -> 68
      [] c = "E" -> 69
      [] c = "I" -> 73
      [] c = "K" -> 75
      [] c = "O" -> 79
      [] c = "P" -> 80
      [] c = "T" -> 84
      [] c = "Y" -> 89
      [] c = "_" -> 95
      [] c = "a" -> 97
      [] c = "b" -> 98
      [] c = "c" -> 99
      [] c = "d" -> 100
      [] c = "e" -> 101
      [] c = "g" -> 103
      [] c = "h" -> 104
      [] c = "i" -> 105
      [] c = "l" -> 108
      [] c = "n" -> 110
      [] c = "o" -> 111
      [] c = "p" -> 112
      [] c = "r" -> 114
      [] c = "s" -> 115
      [] c = "x" -> 120
      [] c = "y" -> 121

\* Python's str.__lt__: lexicographic by code point, a proper prefix first.
RECURSIVE StrLess(_, _)
StrLess(a, b) ==
    IF b = <<>> THEN FALSE
    ELSE IF a = <<>> THEN TRUE
    ELSE IF Head(a) = Head(b) THEN StrLess(Tail(a), Tail(b))
    ELSE Code(Head(a)) < Code(Head(b))

\* list.sort() on a list of strings: a stable insertion sort with str.__lt__.
RECURSIVE InsertStr(_, _)
InsertStr(x, s) ==
    IF s = <<>> THEN <<x>>
    ELSE IF StrLess(x, Head(s)) THEN <<x>> \o s
    ELSE <<Head(s)>> \o InsertStr(x, Tail(s))

RECURSIVE SortStrings(_)
SortStrings(s) ==
    IF s = <<>> THEN <<>>
    ELSE InsertStr(s[Len(s)], SortStrings(SubSeq(s, 1, Len(s) - 1)))

\* list.sort(key=lambda record: record.path): stable, keys compared with str.__lt__.
RECURSIVE InsertRecord(_, _)
InsertRecord(x, s) ==
    IF s = <<>> THEN <<x>>
    ELSE IF StrLess(x.path, Head(s).path) THEN <<x>> \o s
    ELSE <<Head(s)>> \o InsertRecord(x, Tail(s))

RECURSIVE SortRecords(_)
SortRecords(s) ==
    IF s = <<>> THEN <<>>
    ELSE InsertRecord(s[Len(s)], SortRecords(SubSeq(s, 1, Len(s) - 1)))

-----------------------------------------------------------------------------
(* Paths.  A path is its string; pathlib's operations on it.               *)

\* current / name
Join(dir, name) == dir \o <<"/">> \o name

\* Path.name: what follows the last "/".
RECURSIVE Name(_)
Name(path) ==
    IF "/" \notin Range(path) THEN path
    ELSE Name(Tail(path))

\* str(file_path.relative_to(root)) for a path below root.
RelativeTo(path, root) == SubSeq(path, Len(root) + 2, Len(path))

-----------------------------------------------------------------------------
(* The inputs: a directory tree, what the file system, libmagic and stat   *)
(* give for each of its files, and the arguments of scan_repository.       *)

MaxSizeParam == 2     \* max_size ranges over 0..MaxSizeParam
MaxLinesParam == 1    \* max_lines ranges over 0..MaxLinesParam

Root == <<"/", "r">>
DirS == Join(Root, <<"s">>)
DirG == Join(Root, <<".", "g">>)
FileB == Join(Root, <<"b">>)
FileH == Join(Root, <<".", "h">>)
FileA == Join(DirS, <<"a", ".", "l", "o", "g">>)
FileC == Join(DirG, <<"c">>)

\* A second tree, of two files: /e holds code.py and binary.bin.
ExampleRoot == <<"/", "e">>
CodePy == <<"c", "o", "d", "e", ".", "p", "y">>
BinaryBin == <<"b", "i", "n", "a", "r", "y", ".", "b", "i", "n">>

\* The tree: /r holds b, .h, s/ and .g/; s/ holds a.log; .g/ holds c.
SubDirNames(d) == IF d = Root THEN {<<"s">>, <<".", "g">>} ELSE {}
FileNames(d) ==
    IF d = Root THEN {<<"b">>, <<".", "h">>}
    ELSE IF d = DirS THEN {<<"a", ".", "l", "o", "g">>}
    ELSE IF d = DirG THEN {<<"c">>}
    ELSE IF d = ExampleRoot THEN {CodePy, BinaryBin}
    ELSE {}
AllDirs == {Root, DirS, DirG}
AllFiles == UNION {{Join(d, f) : f \in FileNames(d)} : d \in AllDirs}

\* What the outside world gives for one file: its bytes, whether stat() and
\* open()/read_bytes() succeed, and libmagic's MIME answer ("" when python-magic
\* is not installed, fails or answers nothing).
NoMime == <<>>
MimeTextPlain == <<"t", "e", "x", "t", "/", "p", "l", "a", "i", "n">>
MimeJson == <<"a", "p", "p", "l", "i", "c", "a", "t", "i", "o", "n", "/", "j", "s", "o", "n">>

File(content, statOK, readOK, mime) ==
    [content |-> content, statOK |-> statOK, readOK |-> readOK, mime |-> mime]

TextOneLine  == File(<<"x">>, TRUE, TRUE, NoMime)
TextTwoLines == File(<<"\n", "\n">>, TRUE, TRUE, NoMime)
TextTodo     == File(<<"T", "O", "D", "O">>, TRUE, TRUE, NoMime)
EmptyFile    == File(<<>>, TRUE, TRUE, NoMime)
NulFile      == File(<<"NUL", "x">>, TRUE, TRUE, NoMime)
StatFails    == File(<<"x">>, FALSE, FALSE, NoMime)
ReadFails    == File(<<"\n", "\n">>, TRUE, FALSE, NoMime)
JsonByMagic  == File(<<"x">>, TRUE, TRUE, MimeJson)
NulTextByMagic == File(<<"NUL">>, TRUE, TRUE, MimeTextPlain)

FileChoices(path) ==
    IF path = FileB
      THEN {TextOneLine, TextTwoLines, TextTodo, NulFile, StatFails, ReadFails,
            JsonByMagic, NulTextByMagic}
    ELSE IF path = FileA THEN {TextOneLine, TextTwoLines, NulFile}
    ELSE IF path = FileH THEN {EmptyFile, StatFails}
    ELSE {TextOneLine}

FsChoices == {f \in [AllFiles -> UNION {FileChoices(p) : p \in AllFiles}] :
                 \A p \in AllFiles : f[p] \in FileChoices(p)}

\* The ignore lists tried: none; a base-name glob; a path-string glob; the
\* hidden-entry globs the CLI adds (cli.py, build_custom_ignore_patterns);
\* a one-character glob.
PatternLists ==
    { <<>>,
      << <<"*", ".", "l", "o", "g">> >>,
      << <<"*", "/", "s", "/", "*">> >>,
      << <<".", "*">>, <<"*", "/", ".", "*">>, <<".", "*", "/", "*", "*">> >>,
      << <<"?">> >> }

Users == {"alice", "bob"}

-----------------------------------------------------------------------------
(* dat/scanner.py and dat/utils.py                                         *)

\* fnmatch.fnmatch(name, pat) on POSIX (normcase is the identity): "*" matches
\* any run of characters, "/" included, "?" any one character, anything else
\* itself.  The patterns of the model hold no "[...]" class.
RECURSIVE FnMatch(_, _)
FnMatch(name, pat) ==
    IF pat = <<>> THEN name = <<>>
    ELSE IF Head(pat) = "*"
      THEN FnMatch(name, Tail(pat)) \/ (name # <<>> /\ FnMatch(Tail(name), pat))
    ELSE /\ name # <<>>
         /\ (Head(pat) = "?" \/ Head(pat) = Head(name))
         /\ FnMatch(Tail(name), Tail(pat))

\* A should_ignore that tests the base name only.
ShouldIgnore_NameOnly(path, patterns) ==
    \E i \in 1..Len(patterns) : FnMatch(Name(path), patterns[i])

\* should_ignore(path, patterns)
ShouldIgnore(path, patterns) ==
    \E i \in 1..Len(patterns) :
        FnMatch(Name(path), patterns[i]) \/ FnMatch(path, patterns[i])

\* The size of the chunk is_binary looks at.
ChunkSize == 1024

\* An is_binary that trusts libmagic alone and never looks at the bytes.
IsBinary_MagicOnly(f) ==
    IF f.mime # <<>>
      THEN ~IsPrefix(<<"t", "e", "x", "t", "/">>, f.mime)
    ELSE FALSE

\* is_binary(path)
IsBinary(f) ==
    IF f.mime # <<>>
      THEN ~IsPrefix(<<"t", "e", "x", "t", "/">>, f.mime)
    ELSE IF f.readOK /\ "NUL" \in Range(SubSeq(f.content, 1, Min(Len(f.content), ChunkSize)))
      THEN TRUE
    ELSE FALSE

\* Iterating a text-mode handle: the lines of the content, each with its "\n",
\* and a last unterminated line when it is not empty.
RECURSIVE SplitLines(_, _)
SplitLines(content, cur) ==
    IF content = <<>> THEN (IF cur = <<>> THEN <<>> ELSE <<cur>>)
    ELSE IF Head(content) = "\n"
      THEN <<Append(cur, "\n")>> \o SplitLines(Tail(content), <<>>)
    ELSE SplitLines(Tail(content), Append(cur, Head(content)))

\* The optional max_lines argument of count_lines: None, or an integer.
None == <<>>
Some(n) == <<n>>
Truthy(limit) == limit # None /\ limit[1] # 0

\* A loop that returns the limit itself, not the count that passed it.
RECURSIVE CountLoop_ReturnsLimit(_, _, _)
CountLoop_ReturnsLimit(lines, line_count, limit) ==
    IF lines = <<>> THEN line_count
    ELSE IF Truthy(limit) /\ line_count + 1 > limit[1] THEN limit[1]
    ELSE CountLoop_ReturnsLimit(Tail(lines), line_count + 1, limit)

\* The loop of count_lines: enumerate(handle, start=1) with its early return.
RECURSIVE CountLoop(_, _, _)
CountLoop(lines, line_count, limit) ==
    IF lines = <<>> THEN line_count
    ELSE IF Truthy(limit) /\ line_count + 1 > limit[1] THEN line_count + 1
    ELSE CountLoop(Tail(lines), line_count + 1, limit)

\* count_lines(path, binary, max_lines); an OSError on open gives 0.
CountLines(f, binary, limit) ==
    IF binary THEN 0
    ELSE IF ~f.readOK THEN 0
    ELSE CountLoop(SplitLines(f.content, <<>>), 0, limit)

\* ScanResult(root=root.resolve())
EmptyResult(root) ==
    [root |-> root, files |-> <<>>, skipped |-> <<>>, errors |-> <<>>,
     stats |-> [scanned |-> 0, skipped |-> 0, binary |-> 0, errors |-> 0]]

\* A skip branch that lists the path and forgets to count it.
RecordSkipped_ListOnly(res, rel) ==
    [res EXCEPT !.skipped = Append(@, rel)]

\* result.stats.skipped += 1; result.skipped.append(relative path)
RecordSkipped(res, rel) ==
    [res EXCEPT !.stats.skipped = @ + 1, !.skipped = Append(@, rel)]

\* The text of the OSError stat() raises.
StatMessage == <<"E">>
ErrorEntry(file_path) == file_path \o <<":", " ">> \o StatMessage

\* An error branch that counts the error and forgets to list it.
RecordError_CountOnly(res, file_path) ==
    [res EXCEPT !.stats.errors = @ + 1]

\* result.errors.append(f"{file_path}: {exc}"); result.stats.errors += 1
RecordError(res, file_path) ==
    [res EXCEPT !.errors = Append(@, ErrorEntry(file_path)), !.stats.errors = @ + 1]

\* if binary: result.stats.binary += 1
CountBinary(res, binary) ==
    IF binary THEN [res EXCEPT !.stats.binary = @ + 1] ELSE res

\* result.files.append(FileRecord(...)); result.stats.scanned += 1
RecordFile(res, rel, size, lines, binary) ==
    [res EXCEPT !.files = Append(@, [path |-> rel, size |-> size, lines |-> lines,
                                     binary |-> binary]),
                !.stats.scanned = @ + 1]

\* A size test that already skips a file at the limit.
SkipSize_AtLimit(s, size, limit) == s /\ size >= limit

\* The three threshold tests of the loop body.
SkipBinary(s, binary) == s /\ binary
SkipSize(s, size, limit) == s /\ size > limit
SkipLines(s, d, lines, limit) == s /\ ~d /\ lines > limit

\* One iteration of "for name in filenames".
ScanFile(res, file_path) ==
    LET f == fs[file_path]
        rel == RelativeTo(file_path, res.root)
        size == Len(f.content)
        binary == IsBinary(f)
        counted == CountBinary(res, binary)
        lines == CountLines(f, binary, IF deep THEN None ELSE Some(max_lines))
    IN  IF ShouldIgnore(file_path, ignore_patterns) THEN RecordSkipped(res, rel)
        ELSE IF ~f.statOK THEN RecordError(res, file_path)
        ELSE IF SkipBinary(safe, binary) THEN RecordSkipped(counted, rel)
        ELSE IF SkipSize(safe, size, max_size) THEN RecordSkipped(counted, rel)
        ELSE IF SkipLines(safe, deep, lines, max_lines) THEN RecordSkipped(counted, rel)
        ELSE RecordFile(counted, rel, size, lines, binary)

\* A filter that keeps every sub-directory.
FilterDirs_KeepAll(dir, names, patterns) == names

\* dirnames[:] = [d for d in dirnames if not should_ignore(current / d, ...)]
RECURSIVE FilterDirs(_, _, _)
FilterDirs(dir, names, patterns) ==
    IF names = <<>> THEN <<>>
    ELSE IF ShouldIgnore(Join(dir, Head(names)), patterns)
      THEN FilterDirs(dir, Tail(names), patterns)
    ELSE <<Head(names)>> \o FilterDirs(dir, Tail(names), patterns)

\* A return that sorts the file records and leaves the two lists as collected.
SortResult_FilesOnly(res) ==
    [res EXCEPT !.files = SortRecords(@)]

\* The three sorts before the return.
SortResult(res) ==
    [res EXCEPT !.files = SortRecords(@), !.skipped = SortStrings(@),
                !.errors = SortStrings(@)]

\* os.walk lists a directory with scandir; a failure there is swallowed
\* (onerror is None) and the directory yields nothing.
Listable(d) == d # Root \/ rootState = "ok"

\* The directories os.walk has still to visit, the nearest first.
RECURSIVE JoinAll(_, _)
JoinAll(dir, names) ==
    IF names = <<>> THEN <<>> ELSE <<Join(dir, Head(names))>> \o JoinAll(dir, Tail(names))
Pending == JoinAll(current, dirnames) \o stack

-----------------------------------------------------------------------------
(* dat/rules/engine.py                                                     *)

Rule(rule_id, patterns, severity) ==
    [rule_id |-> rule_id, patterns |-> patterns, severity |-> severity]

DEFAULT_RULES ==
    << Rule("secrets.api_key",
            << <<"A", "P", "I", "_", "K", "E", "Y">>,
               <<"S", "E", "C", "R", "E", "T", "_", "K", "E", "Y">>,
               <<"x", "-", "a", "p", "i", "-", "k", "e", "y">> >>, "high"),
       Rule("credentials.password",
            << <<"p", "a", "s", "s", "w", "o", "r", "d", "=">>,
               <<"p", "w", "d", "=">>,
               <<"P", "A", "S", "S", "=">> >>, "critical"),
       Rule("compliance.todo", << <<"T", "O", "D", "O">> >>, "low") >>

\* str.strip(): leading and trailing whitespace removed.
Whitespace == {" ", "\n", "\t", "\r"}
RECURSIVE LStrip(_)
LStrip(line) ==
    IF line # <<>> /\ Head(line) \in Whitespace THEN LStrip(Tail(line)) ELSE line
RECURSIVE RStrip(_)
RStrip(line) ==
    IF line # <<>> /\ line[Len(line)] \in Whitespace
      THEN RStrip(SubSeq(line, 1, Len(line) - 1))
    ELSE line
Strip(line) == RStrip(LStrip(line))

\* pattern in stripped
Contains(pattern, text) ==
    \E i \in 0..(Len(text) - Len(pattern)) : SubSeq(text, i + 1, i + Len(pattern)) = pattern

Violation(rule, pattern, path, line_number) ==
    [rule_id |-> rule.rule_id, severity |-> rule.severity,
     message |-> <<"Matched pattern", pattern>>,
     path |-> path, line_number |-> line_number]

\* A pattern loop that leaves the rule at its first matching pattern.
RECURSIVE MatchPatterns_FirstOnly(_, _, _, _, _)
MatchPatterns_FirstOnly(rule, patterns, stripped, path, line_number) ==
    IF patterns = <<>> THEN <<>>
    ELSE IF Contains(Head(patterns), stripped)
      THEN <<Violation(rule, Head(patterns), path, line_number)>>
    ELSE MatchPatterns_FirstOnly(rule, Tail(patterns), stripped, path, line_number)

\* for pattern in rule.patterns: if pattern in stripped: violations.append(...)
RECURSIVE MatchPatterns(_, _, _, _, _)
MatchPatterns(rule, patterns, stripped, path, line_number) ==
    IF patterns = <<>> THEN <<>>
    ELSE (IF Contains(Head(patterns), stripped)
            THEN <<Violation(rule, Head(patterns), path, line_number)>>
          ELSE <<>>)
         \o MatchPatterns(rule, Tail(patterns), stripped, path, line_number)

\* A rule loop that goes through the rules from the last to the first.
RECURSIVE MatchRules_LastFirst(_, _, _, _)
MatchRules_LastFirst(rules, stripped, path, line_number) ==
    IF rules = <<>> THEN <<>>
    ELSE MatchRules_LastFirst(Tail(rules), stripped, path, line_number)
         \o MatchPatterns(Head(rules), Head(rules).patterns, stripped, path, line_number)

\* for rule in self.rules
RECURSIVE MatchRules(_, _, _, _)
MatchRules(rules, stripped, path, line_number) ==
    IF rules = <<>> THEN <<>>
    ELSE MatchPatterns(Head(rules), Head(rules).patterns, stripped, path, line_number)
         \o MatchRules(Tail(rules), stripped, path, line_number)

\* for line_number, line in enumerate(lines, start=1)
RECURSIVE EvaluateFrom(_, _, _, _)
EvaluateFrom(rules, path, lines, line_number) ==
    IF lines = <<>> THEN <<>>
    ELSE MatchRules(rules, Strip(Head(lines)), path, line_number)
         \o EvaluateFrom(rules, path, Tail(lines), line_number + 1)

\* Policy.evaluate(path=..., lines=...)
Evaluate(rules, path, lines) == EvaluateFrom(rules, path, lines, 1)

\* load_default_policy(extra_rules): the default rules, then the extra ones;
\* None and the empty list are both falsy.
LoadDefaultPolicy(extra_rules) ==
    IF extra_rules # <<>> THEN DEFAULT_RULES \o extra_rules ELSE DEFAULT_RULES

-----------------------------------------------------------------------------
(* The report and its fingerprint.  dat/scanner/core.py (ScanReport,       *)
(* build_scan_report) is not part of the sources at hand: the report is    *)
(* built as sections 4.4 and 4.5 of the specification describe it.         *)

\* The violations of one emitted file: none for a binary or unreadable one.
FileViolations(record, root) ==
    LET f == fs[Join(root, record.path)]
    IN  IF record.binary \/ ~f.readOK THEN <<>>
        ELSE Evaluate(DEFAULT_RULES, record.path, SplitLines(f.content, <<>>))

\* build_scan_report: the scan result with each file's violations.
BuildScanReport(res) ==
    [repo |-> Name(res.root),
     root |-> res.root,
     stats |-> res.stats,
     files |-> [i \in 1..Len(res.files) |->
                  [path |-> res.files[i].path, size |-> res.files[i].size,
                   lines |-> res.files[i].lines, binary |-> res.files[i].binary,
                   violations |-> FileViolations(res.files[i], res.root)]],
     skipped |-> res.skipped,
     errors |-> res.errors]

\* ScanReport.to_json(): the fields in a fixed key order, the lists in the
\* order the report holds them.
ToJson(report) ==
    << <<"errors", report.errors>>, <<"files", report.files>>,
       <<"repo", report.repo>>, <<"root", report.root>>,
       <<"skipped", report.skipped>>, <<"stats", report.stats>> >>

\* hashlib.sha256(...).hexdigest(): equal inputs give equal digests, and the
\* model treats different inputs as giving different digests.
Sha256(data) == <<"sha256", data>>

\* A fingerprint taken over the report together with the time of the run.
Fingerprint_WithTimestamp(report, timestamp, user) ==
    Sha256(<<ToJson(report), timestamp>>)

\* write_report_file, format 'json': the fingerprint and the payload.
Fingerprint(report, timestamp, user) == Sha256(ToJson(report))
Payload(report, timestamp, user) ==
    [timestamp |-> timestamp, user |-> user, repo |-> report.repo,
     fingerprint |-> Fingerprint(report, timestamp, user), report |-> report]

-----------------------------------------------------------------------------
(* The scan as a state machine.                                            *)

EvalIdle ==
    /\ ev_pc = "idle" /\ ev_policy = <<>> /\ ev_path = <<>> /\ ev_lines = <<>>
    /\ ev_out = <<>>
DiffIdle ==
    /\ df_pc = "idle" /\ df_previous = <<>> /\ df_current = <<>>
    /\ df_message = "" /\ df_exit = 0

PolicyIdle == lp_pc = "idle" /\ lp_extra = <<>> /\ lp_policy = <<>>
NoArgs == [parse_ok |-> TRUE, version |-> FALSE, valid |-> TRUE, lrc |-> FALSE,
           sign |-> FALSE, diff |-> FALSE]
JAbsent == [kind |-> "absent"]
JNone == [kind |-> "none"]
MainIdle ==
    /\ m_pc = "idle" /\ m_args = NoArgs /\ m_config = JAbsent /\ m_schema = JNone
    /\ m_rules = <<>> /\ m_report = <<>> /\ m_events = {} /\ m_exit = 0
NoSelection == [folder |-> <<>>, single_file |-> <<>>, all |-> FALSE, ignore |-> <<>>,
                deep |-> FALSE, fast |-> FALSE, audit |-> FALSE]
CliIdle == cli_args = NoSelection
AtomicIdle ==
    /\ aw_files = <<>> /\ aw_present = FALSE /\ aw_target = 0 /\ aw_pc = <<>>
    /\ aw_last = 0 /\ aw_rd = <<>>
TextIdle == tx_pc = "idle" /\ tx_file = <<>> /\ tx_out = FALSE
BuiltinIdle == br_pc = "idle" /\ br_fs = <<>> /\ br_files = <<>> /\ br_out = <<>>
AuditIdle ==
    /\ au_exists = FALSE /\ au_keydata = 0 /\ au_writes = 0 /\ au_log = <<>>
    /\ au_proc = <<>>
ExtIdle == TextIdle /\ BuiltinIdle /\ AuditIdle
AuxIdle == PolicyIdle /\ MainIdle /\ CliIdle /\ AtomicIdle /\ ExtIdle

ScanInit ==
    /\ rootState \in {"ok", "missing", "unreadable"}
    /\ fs \in (IF rootState = "ok" THEN FsChoices
               ELSE IF rootState = "unreadable" THEN {[p \in AllFiles |-> TextOneLine]}
               ELSE {[p \in {} |-> TextOneLine]})
    /\ ignore_patterns \in PatternLists
    /\ max_lines \in 0..MaxLinesParam
    /\ max_size \in 0..MaxSizeParam
    /\ safe \in BOOLEAN
    /\ deep \in BOOLEAN
    /\ pc = "start"
    /\ stack = <<>> /\ current = <<>> /\ dirnames = <<>> /\ todo = <<>>
    /\ result = EmptyResult(<<>>)
    /\ yielded = {}
    /\ run = 1 /\ now = 1 /\ outputs = <<>>

Init == ScanInit /\ EvalIdle /\ DiffIdle /\ AuxIdle

\* scan_repository, lines 77-78: the empty result; os.walk has root to list.
Start ==
    /\ pc = "start"
    /\ result' = EmptyResult(Root)
    /\ stack' = <<Root>>
    /\ current' = <<>> /\ dirnames' = <<>> /\ todo' = <<>>
    /\ yielded' = {}
    /\ pc' = "walk"
    /\ UNCHANGED <<rootState, fs, ignore_patterns, max_lines, max_size, safe, deep,
                   run, now, outputs, evalVars, diffVars, auxVars>>

\* os.walk resumes: the sub-directories kept by line 83 come before the rest,
\* the nearest directory is listed (in whatever order scandir gives) and
\* yielded, and line 83 filters its sub-directories.
WalkDir ==
    /\ pc = "walk" /\ todo = <<>> /\ Pending # <<>>
    /\ LET d == Head(Pending)
       IN  IF Listable(d)
             THEN \E ds \in Perms(SubDirNames(d)), names \in Perms(FileNames(d)) :
                     /\ current' = d
                     /\ dirnames' = FilterDirs(d, ds, ignore_patterns)
                     /\ todo' = names
                     /\ yielded' = yielded \cup {Join(d, names[i]) : i \in 1..Len(names)}
           ELSE /\ dirnames' = <<>> /\ todo' = <<>>
                /\ UNCHANGED <<current, yielded>>
    /\ stack' = Tail(Pending)
    /\ UNCHANGED <<rootState, fs, ignore_patterns, max_lines, max_size, safe, deep,
                   pc, result, run, now, outputs, evalVars, diffVars, auxVars>>

\* One iteration of the loop over filenames (lines 85-126).
ProcessFile ==
    /\ pc = "walk" /\ todo # <<>>
    /\ result' = ScanFile(result, Join(current, Head(todo)))
    /\ todo' = Tail(todo)
    /\ UNCHANGED <<rootState, fs, ignore_patterns, max_lines, max_size, safe, deep,
                   pc, stack, current, dirnames, yielded, run, now, outputs,
                   evalVars, diffVars, auxVars>>

\* os.walk is exhausted: the three sorts and the return (lines 128-131).
Finish ==
    /\ pc = "walk" /\ todo = <<>> /\ Pending = <<>>
    /\ result' = SortResult(result)
    /\ pc' = "done"
    /\ UNCHANGED <<rootState, fs, ignore_patterns, max_lines, max_size, safe, deep,
                   stack, current, dirnames, todo, yielded, run, now, outputs,
                   evalVars, diffVars, auxVars>>

\* The CLI writes the JSON report of the scan: validate_args has let the root
\* through (it exists and is a directory), some user runs the tool, the
\* clock is read.
WriteReport ==
    /\ pc = "done" /\ rootState # "missing"
    /\ \E user \in Users :
          outputs' = Append(outputs, Payload(BuildScanReport(result), now, user))
    /\ now' = now + 1
    /\ pc' = "written"
    /\ UNCHANGED <<rootState, fs, ignore_patterns, max_lines, max_size, safe, deep,
                   stack, current, dirnames, todo, result, yielded, run,
                   evalVars, diffVars, auxVars>>

\* The tool is run a second time on the unchanged tree with the same arguments.
Rescan ==
    /\ pc = "written" /\ run = 1
    /\ run' = 2
    /\ pc' = "start"
    /\ UNCHANGED <<rootState, fs, ignore_patterns, max_lines, max_size, safe, deep,
                   stack, current, dirnames, todo, result, yielded, now, outputs,
                   evalVars, diffVars, auxVars>>

Next == Start \/ WalkDir \/ ProcessFile \/ Finish \/ WriteReport \/ Rescan

Spec == Init /\ [][Next]_vars

-----------------------------------------------------------------------------
(* Policy.evaluate on its own: the inputs are drawn from bounded sets.     *)

MaxLineLen == 2      \* the lines tried are all strings of up to MaxLineLen characters
MaxEvalLines == 2    \* and a file holds up to MaxEvalLines of them

EvalChars == {"T", " "}
ExampleLines ==
    { <<"A", "P", "I", "_", "K", "E", "Y", "=", "1", "2", "3">>,
      <<"#", " ", "T", "O", "D", "O", ":", " ", "f", "i", "x", "\n">> }
EvalLines == UNION {[1..n -> EvalChars] : n \in 0..MaxLineLen} \cup ExampleLines
EvalFiles == UNION {[1..n -> EvalLines] : n \in 0..MaxEvalLines}
EvalPaths == {<<"f">>, <<"s", "/", "f">>}

\* The policies tried: the default rules; one rule with one pattern; a rule
\* with two patterns of which one contains the other, followed by a second
\* rule; a rule that names the same pattern twice; two rules of the same id,
\* one pattern ending in a blank and one empty pattern; no rule at all.
EvalPolicies ==
    { DEFAULT_RULES,
      << Rule("r1", << <<"T">> >>, "high") >>,
      << Rule("r1", << <<"T">>, <<"T", "T">> >>, "high"),
         Rule("r2", << <<"T">> >>, "low") >>,
      << Rule("r1", << <<"T">>, <<"T">> >>, "medium") >>,
      << Rule("r1", << <<"T", " ">> >>, "critical"), Rule("r1", << <<>> >>, "info") >>,
      <<>> }

ScanIdle ==
    /\ rootState = "missing"
    /\ fs = [p \in {} |-> TextOneLine]
    /\ ignore_patterns = <<>>
    /\ max_lines = 0 /\ max_size = 0 /\ safe = TRUE /\ deep = FALSE
    /\ pc = "idle"
    /\ stack = <<>> /\ current = <<>> /\ dirnames = <<>> /\ todo = <<>>
    /\ result = EmptyResult(<<>>)
    /\ yielded = {}
    /\ run = 1 /\ now = 1 /\ outputs = <<>>

EvalInit ==
    /\ ev_pc = "ready"
    /\ ev_policy \in EvalPolicies
    /\ ev_path \in EvalPaths
    /\ ev_lines \in EvalFiles
    /\ ev_out = <<>>
    /\ ScanIdle /\ DiffIdle /\ AuxIdle

\* policy.evaluate(path=ev_path, lines=ev_lines)
EvalCall ==
    /\ ev_pc = "ready"
    /\ ev_out' = Evaluate(ev_policy, ev_path, ev_lines)
    /\ ev_pc' = "done"
    /\ UNCHANGED <<ev_policy, ev_path, ev_lines, scanVars, diffVars, auxVars>>

EvalNext == EvalCall

SpecEval == EvalInit /\ [][EvalNext]_vars

-----------------------------------------------------------------------------
(* The --diff step of main (cli.py 616-635) and the exit code that follows *)
(* it (cli.py 653-659).  A report is the map from the paths of its files   *)
(* to the number of violations of each.                                    *)

MaxCount == 2        \* a file holds up to MaxCount violations

DiffPaths == {"a.py", "b.py"}
DiffReports == UNION {[P -> 0..MaxCount] : P \in SUBSET DiffPaths}

\* ScanReport.total_violations (dat/scanner/core.py is not part of the
\* sources at hand): the number of violations of all files of the report.
RECURSIVE SumCounts(_, _)
SumCounts(report, paths) ==
    IF paths = {} THEN 0
    ELSE LET p == CHOOSE q \in paths : TRUE
         IN  report[p] + SumCounts(report, paths \ {p})
TotalViolations(report) == SumCounts(report, DOMAIN report)

\* The message printed by the diff step.
DiffMessage(previous_violations, current_violations) ==
    IF current_violations > previous_violations THEN "Regressions detected"
    ELSE IF current_violations < previous_violations THEN "Improvements"
    ELSE "No change"

DiffInit ==
    /\ df_pc = "ready"
    /\ df_previous \in [valid : BOOLEAN, files : DiffReports]
    /\ (~df_previous.valid => df_previous.files = [p \in {} |-> 0])
    /\ df_current \in DiffReports
    /\ df_message = ""
    /\ df_exit = 0
    /\ ScanIdle /\ EvalIdle /\ AuxIdle

\* The baseline is read and compared; a regression returns 3 at once.
DiffCompare ==
    /\ df_pc = "ready" /\ df_previous.valid
    /\ df_message' = DiffMessage(TotalViolations(df_previous.files),
                                 TotalViolations(df_current))
    /\ df_exit' = IF df_message' = "Regressions detected" THEN 3
                  ELSE IF TotalViolations(df_current) > 0 THEN 3 ELSE 0
    /\ df_pc' = "done"
    /\ UNCHANGED <<df_previous, df_current, scanVars, evalVars, auxVars>>

\* The baseline cannot be read or parsed: a warning, and main goes on.
DiffFailed ==
    /\ df_pc = "ready" /\ ~df_previous.valid
    /\ df_message' = "Diff comparison failed"
    /\ df_exit' = IF TotalViolations(df_current) > 0 THEN 3 ELSE 0
    /\ df_pc' = "done"
    /\ UNCHANGED <<df_previous, df_current, scanVars, evalVars, auxVars>>

DiffNext == DiffCompare \/ DiffFailed

SpecDiff == DiffInit /\ [][DiffNext]_vars

-----------------------------------------------------------------------------
(* load_default_policy on its own.                                         *)

MaxExtraRules == 2   \* extra_rules holds up to MaxExtraRules rules

\* The extra rules tried: new ids, an id used twice with different patterns,
\* and ids of the default rules.
ExtraRuleChoices ==
    { Rule("custom.a", << <<"T">> >>, "high"),
      Rule("custom.a", << <<"x">> >>, "low"),
      Rule("custom.b", << <<"T">>, <<"x">> >>, "info"),
      Rule("custom.c", << <<" ">> >>, "medium"),
      Rule("custom.d", << <<"x">> >>, "critical"),
      Rule("compliance.todo", << <<"T">> >>, "low"),
      Rule("secrets.api_key", << <<"K", "E", "Y">> >>, "high") }
ExtraRuleLists == UNION {[1..n -> ExtraRuleChoices] : n \in 0..MaxExtraRules}

PolicyInit ==
    /\ lp_pc = "ready"
    /\ lp_extra \in ExtraRuleLists
    /\ lp_policy = <<>>
    /\ ScanIdle /\ EvalIdle /\ DiffIdle /\ MainIdle /\ CliIdle /\ AtomicIdle /\ ExtIdle

\* policy = load_default_policy(lp_extra)
LoadPolicy ==
    /\ lp_pc = "ready"
    /\ lp_policy' = LoadDefaultPolicy(lp_extra)
    /\ lp_pc' = "done"
    /\ UNCHANGED <<lp_extra, scanVars, evalVars, diffVars, mainVars, cliVars, awVars, extVars>>

PolicyNext == LoadPolicy

SpecPolicy == PolicyInit /\ [][PolicyNext]_vars

-----------------------------------------------------------------------------
(* dat/integration/lrc.py.  A JSON value is a record tagged with its kind: *)
(* a dict carries the keys the code looks at, a list its items.            *)

JInvalid == [kind |-> "invalid"]          \* the file is not valid JSON
JStr == [kind |-> "str"]                  \* some string
JNum == [kind |-> "num"]                  \* some number
JMissing == [kind |-> "missing"]          \* the key is not in the dict
JList(items) == [kind |-> "list", items |-> items]
JRule(id) == [kind |-> "dict", id |-> id]
JSchema(repos, rules) == [kind |-> "dict", repos |-> repos, rules |-> rules]
JConfig(schemas) == [kind |-> "dict", schemas |-> schemas]

\* The outcome of a call: a value, or an exception.
Ok(v) == [ok |-> TRUE, value |-> v]
Raised == [ok |-> FALSE]

\* load_integration_config(): {} for a missing file, LRCIntegrationError for
\* a file that is not JSON, the parsed value otherwise.
LoadIntegrationConfig(file) ==
    IF file.kind = "absent" THEN Ok(JConfig(JMissing))
    ELSE IF file.kind = "invalid" THEN Raised
    ELSE Ok(file)

\* The loop of select_schema; schema.get raises for a schema that is no dict.
RECURSIVE SelectFrom(_, _)
SelectFrom(schemas, repo_name) ==
    IF schemas = <<>> THEN Ok(JNone)
    ELSE LET schema == Head(schemas)
         IN  IF schema.kind # "dict" THEN Raised
             ELSE LET targets == IF schema.repos.kind = "missing" THEN <<>>
                                 ELSE schema.repos.items
                  IN  IF targets = <<>> \/ (repo_name # "" /\ repo_name \in Range(targets))
                        THEN Ok(schema)
                      ELSE SelectFrom(Tail(schemas), repo_name)

\* select_schema(config, repo_name); config.get raises for a config that is
\* no dict, and iterating a number does too.
SelectSchema(config, repo_name) ==
    IF config.kind # "dict" THEN Raised
    ELSE IF config.schemas.kind = "missing" THEN Ok(JNone)
    ELSE IF config.schemas.kind = "list" THEN SelectFrom(config.schemas.items, repo_name)
    ELSE IF config.schemas.kind = "str" THEN Raised
    ELSE Raised

RECURSIVE DictsOf(_)
DictsOf(items) ==
    IF items = <<>> THEN <<>>
    ELSE (IF Head(items).kind = "dict" THEN <<Head(items)>> ELSE <<>>) \o DictsOf(Tail(items))

\* An extraction that returns the list as it stands.
ExtractRulesFromSchema_Unfiltered(schema) ==
    IF schema.kind = "none" THEN <<>>
    ELSE IF schema.rules.kind = "list" THEN schema.rules.items
    ELSE <<>>

\* extract_rules_from_schema(schema)
ExtractRulesFromSchema(schema) ==
    IF schema.kind = "none" THEN <<>>
    ELSE IF schema.rules.kind = "list" THEN DictsOf(schema.rules.items)
    ELSE <<>>

\* try: config = load_integration_config(); schema = select_schema(...)
\* except Exception: schema stays None  (cli.py 510-518)
LoadSchema(file, repo_name) ==
    LET config == LoadIntegrationConfig(file)
        selected == IF config.ok THEN SelectSchema(config.value, repo_name) ELSE Raised
    IN  IF selected.ok THEN selected.value ELSE JNone

-----------------------------------------------------------------------------
(* main (cli.py 542-669) and run_scan (cli.py 497-539), step by step.  The  *)
(* scan itself is seen from outside here: it raises, or it gives a report  *)
(* (path -> number of violations).                                         *)

RepoName == "r"      \* target.name

\* The LRC config files tried: none; not JSON; JSON that is no object; no
\* schemas; a schema that is no object; schemas without rules, with rules
\* that are no list, with well-formed rules, with entries that are no
\* objects among them; a schema for another repository before ours.
ConfigChoices ==
    { JAbsent, JInvalid, JList(<<>>), JConfig(JMissing), JConfig(JStr),
      JConfig(JList(<<JStr>>)),
      JConfig(JList(<<JSchema(JMissing, JMissing)>>)),
      JConfig(JList(<<JSchema(JMissing, JStr)>>)),
      JConfig(JList(<<JSchema(JMissing, JRule("custom.a"))>>)),
      JConfig(JList(<<JSchema(JMissing, JList(<<JRule("custom.a")>>))>>)),
      JConfig(JList(<<JSchema(JList(<<RepoName>>),
                              JList(<<JStr, JRule("custom.a"), JNum, JRule("custom.b")>>))>>)),
      JConfig(JList(<<JSchema(JList(<<"other">>), JList(<<JRule("custom.a")>>)),
                      JSchema(JList(<<"other", RepoName>>), JList(<<JNum>>))>>)) }

MainReports == DiffReports

MainInit ==
    /\ m_pc = "parse"
    /\ m_args \in [parse_ok : BOOLEAN, version : BOOLEAN, valid : BOOLEAN,
                   lrc : BOOLEAN, sign : BOOLEAN, diff : BOOLEAN]
    /\ m_config \in ConfigChoices
    /\ m_schema = JNone
    /\ m_rules = <<>>
    /\ m_report = <<>>
    /\ m_events = {}
    /\ m_exit = 0
    /\ ScanIdle /\ EvalIdle /\ DiffIdle /\ PolicyIdle /\ CliIdle /\ AtomicIdle /\ ExtIdle

Exit(code, event) ==
    /\ m_pc' = "exited"
    /\ m_exit' = code
    /\ m_events' = m_events \cup {event}

\* return 3 if report.total_violations > 0, else 0, with a threshold of 1.
ExitCodeFor_MoreThanOne(report) == IF TotalViolations(report) > 1 THEN 3 ELSE 0

\* The exit code of the last lines of main (cli.py 654-659).
ExitCodeFor(report) == IF TotalViolations(report) > 0 THEN 3 ELSE 0

\* parse_args: a usage error leaves through SystemExit(2), which no handler
\* of main catches; --version returns 0.
MainParse ==
    /\ m_pc = "parse"
    /\ IF ~m_args.parse_ok THEN Exit(2, "usage")
       ELSE IF m_args.version THEN Exit(0, "version")
       ELSE m_pc' = "validate" /\ UNCHANGED <<m_exit, m_events>>
    /\ UNCHANGED <<m_args, m_config, m_schema, m_rules, m_report,
                   scanVars, evalVars, diffVars, policyVars, cliVars, awVars, extVars>>

\* validate_args
MainValidate ==
    /\ m_pc = "validate"
    /\ IF ~m_args.valid THEN Exit(1, "invalid")
       ELSE m_pc' = "schema" /\ UNCHANGED <<m_exit, m_events>>
    /\ UNCHANGED <<m_args, m_config, m_schema, m_rules, m_report,
                   scanVars, evalVars, diffVars, policyVars, cliVars, awVars, extVars>>

\* run_scan, lines 510-518
MainLoadSchema ==
    /\ m_pc = "schema"
    /\ m_schema' = IF m_args.lrc THEN LoadSchema(m_config, RepoName) ELSE JNone
    /\ m_pc' = "scan"
    /\ UNCHANGED <<m_args, m_config, m_rules, m_report, m_events, m_exit,
                   scanVars, evalVars, diffVars, policyVars, cliVars, awVars, extVars>>

\* run_scan, lines 520-539: build_scan_report extracts the schema's rules and
\* scans; it gives a report, or it raises and run_scan returns (None, 1).
MainScan ==
    /\ m_pc = "scan"
    /\ m_rules' = ExtractRulesFromSchema(m_schema)
    /\ \/ /\ \E r \in MainReports : m_report' = r
          /\ m_pc' = "output"
          /\ m_events' = m_events \cup {"report"}
          /\ UNCHANGED m_exit
       \/ /\ Exit(1, "scan_failed")
          /\ UNCHANGED m_report
    /\ UNCHANGED <<m_args, m_config, m_schema,
                   scanVars, evalVars, diffVars, policyVars, cliVars, awVars, extVars>>

\* display_scan_summary and the report file (lines 577-603); an exception
\* here reaches the last handler of main.
MainOutput ==
    /\ m_pc = "output"
    /\ \/ m_pc' = "sign" /\ UNCHANGED <<m_exit, m_events>>
       \/ Exit(1, "exception")
    /\ UNCHANGED <<m_args, m_config, m_schema, m_rules, m_report,
                   scanVars, evalVars, diffVars, policyVars, cliVars, awVars, extVars>>

\* lines 605-613: a failure to sign is a warning.
MainSign ==
    /\ m_pc = "sign"
    /\ IF m_args.sign
         THEN \E e \in {"signed", "sign_failed"} : m_events' = m_events \cup {e}
       ELSE UNCHANGED m_events
    /\ m_pc' = "diff"
    /\ UNCHANGED <<m_args, m_config, m_schema, m_rules, m_report, m_exit,
                   scanVars, evalVars, diffVars, policyVars, cliVars, awVars, extVars>>

\* lines 616-635: a regression returns 3; anything else, a baseline that
\* cannot be loaded included, goes on.
MainDiff ==
    /\ m_pc = "diff"
    /\ IF m_args.diff
         THEN \/ \E previous \in MainReports :
                    LET message == DiffMessage(TotalViolations(previous),
                                               TotalViolations(m_report))
                    IN  IF message = "Regressions detected" THEN Exit(3, message)
                        ELSE /\ m_events' = m_events \cup {message}
                             /\ m_pc' = "audit"
                             /\ UNCHANGED m_exit
              \/ /\ m_events' = m_events \cup {"Diff comparison failed"}
                 /\ m_pc' = "audit"
                 /\ UNCHANGED m_exit
       ELSE m_pc' = "audit" /\ UNCHANGED <<m_exit, m_events>>
    /\ UNCHANGED <<m_args, m_config, m_schema, m_rules, m_report,
                   scanVars, evalVars, diffVars, policyVars, cliVars, awVars, extVars>>

\* lines 637-659: the audit log entry, whose failure is swallowed, and the
\* exit code.
MainAudit ==
    /\ m_pc = "audit"
    /\ \E e \in {"audited", "audit_failed"} :
          Exit(ExitCodeFor(m_report), e)
    /\ UNCHANGED <<m_args, m_config, m_schema, m_rules, m_report,
                   scanVars, evalVars, diffVars, policyVars, cliVars, awVars, extVars>>

\* lines 661-663: the user interrupts the run at any step after parsing.
MainInterrupt ==
    /\ m_pc \in {"validate", "schema", "scan", "output", "sign", "diff", "audit"}
    /\ Exit(130, "interrupted")
    /\ UNCHANGED <<m_args, m_config, m_schema, m_rules, m_report,
                   scanVars, evalVars, diffVars, policyVars, cliVars, awVars, extVars>>

MainNext ==
    \/ MainParse \/ MainValidate \/ MainLoadSchema \/ MainScan \/ MainOutput
    \/ MainSign \/ MainDiff \/ MainAudit \/ MainInterrupt

SpecMain == MainInit /\ [][MainNext]_vars

-----------------------------------------------------------------------------
(* The file selection of the command line (cli.py 252-322) in front of the *)
(* scanner: run_scan builds the ignore patterns and the mode from the      *)
(* arguments and scans the tree with them.                                 *)

\* The defaults of scan_repository, which run_scan does not override.
DefaultMaxLines == 1000
DefaultMaxSize == 10 * 1024 * 1024

\* str.rstrip('/')
RECURSIVE RStripSlash(_)
RStripSlash(text) ==
    IF text # <<>> /\ text[Len(text)] = "/" THEN RStripSlash(SubSeq(text, 1, Len(text) - 1))
    ELSE text

HiddenPatterns ==
    << <<".", "*">>, <<"*", "/", ".", "*">>, <<".", "*", "/", "*", "*">> >>

\* A pattern builder that never adds the hidden-entry globs.
BuildCustomIgnorePatterns_NoHidden(args) ==
    args.ignore
    \o (IF args.folder # <<>>
          THEN << <<"!">> \o RStripSlash(args.folder) \o <<"/", "*", "*">>, <<"*", "*">> >>
        ELSE IF args.single_file # <<>>
          THEN << <<"!">> \o args.single_file, <<"*", "*">> >>
        ELSE <<>>)

\* build_custom_ignore_patterns(args, target)
BuildCustomIgnorePatterns(args) ==
    args.ignore
    \o (IF args.folder # <<>>
          THEN << <<"!">> \o RStripSlash(args.folder) \o <<"/", "*", "*">>, <<"*", "*">> >>
        ELSE IF args.single_file # <<>>
          THEN << <<"!">> \o args.single_file, <<"*", "*">> >>
        ELSE <<>>)
    \o (IF ~args.all THEN HiddenPatterns ELSE <<>>)

\* A mode selection that looks at --audit before --fast.
DetermineScanMode_AuditFirst(args) ==
    IF args.deep \/ args.audit
      THEN [safe |-> FALSE, deep |-> TRUE, max_size |-> None, max_lines |-> None]
    ELSE IF args.fast
      THEN [safe |-> TRUE, deep |-> FALSE,
            max_size |-> Some(5 * 1024 * 1024), max_lines |-> Some(500)]
    ELSE [safe |-> TRUE, deep |-> FALSE,
          max_size |-> Some(DefaultMaxSize), max_lines |-> Some(DefaultMaxLines)]

\* determine_scan_mode(args): the parameters chosen by --deep, --fast and
\* --audit, which argparse accepts in any combination; run_scan passes safe
\* and deep on.
DetermineScanMode(args) ==
    IF args.deep
      THEN [safe |-> FALSE, deep |-> TRUE, max_size |-> None, max_lines |-> None]
    ELSE IF args.fast
      THEN [safe |-> TRUE, deep |-> FALSE,
            max_size |-> Some(5 * 1024 * 1024), max_lines |-> Some(500)]
    ELSE IF args.audit
      THEN [safe |-> FALSE, deep |-> TRUE, max_size |-> None, max_lines |-> None]
    ELSE [safe |-> TRUE, deep |-> FALSE,
          max_size |-> Some(DefaultMaxSize), max_lines |-> Some(DefaultMaxLines)]

\* The selections tried; validate_args has accepted them: the folders and
\* the files exist below the root.
SelectionChoices ==
    [folder : {<<>>, <<"s">>, <<"s", "/">>, <<".", "g">>},
     single_file : {<<>>, <<"b">>, <<"s", "/", "a", ".", "l", "o", "g">>},
     all : BOOLEAN,
     ignore : {<<>>, << <<"*", ".", "l", "o", "g">> >>},
     deep : BOOLEAN, fast : BOOLEAN, audit : BOOLEAN]

CliInit ==
    /\ cli_args \in SelectionChoices
    /\ rootState = "ok"
    /\ fs \in FsChoices
    /\ ignore_patterns = <<>>
    /\ max_lines = DefaultMaxLines /\ max_size = DefaultMaxSize
    /\ safe = TRUE /\ deep = FALSE
    /\ pc = "args"
    /\ stack = <<>> /\ current = <<>> /\ dirnames = <<>> /\ todo = <<>>
    /\ result = EmptyResult(<<>>)
    /\ yielded = {}
    /\ run = 1 /\ now = 1 /\ outputs = <<>>
    /\ EvalIdle /\ DiffIdle /\ PolicyIdle /\ MainIdle /\ AtomicIdle /\ ExtIdle

\* run_scan, lines 502-508 and 522-527: the parameters of the scan.
CliRunScan ==
    /\ pc = "args"
    /\ ignore_patterns' = BuildCustomIgnorePatterns(cli_args)
    /\ safe' = DetermineScanMode(cli_args).safe
    /\ deep' = DetermineScanMode(cli_args).deep
    /\ pc' = "start"
    /\ UNCHANGED <<rootState, fs, max_lines, max_size, stack, current, dirnames, todo,
                   result, yielded, run, now, outputs, evalVars, diffVars, auxVars>>

CliNext == CliRunScan \/ Start \/ WalkDir \/ ProcessFile \/ Finish

SpecCli == CliInit /\ [][CliNext]_vars

-----------------------------------------------------------------------------
(* The two-file tree scanned with the defaults of scan_repository and      *)
(* safe=true, and the default policy evaluated on the emitted files.       *)

MimePython == <<"t", "e", "x", "t", "/", "x", "-", "p", "y", "t", "h", "o", "n">>
MimeOctet == <<"a", "p", "p", "l", "i", "c", "a", "t", "i", "o", "n", "/",
               "o", "c", "t", "e", "t", "-", "s", "t", "r", "e", "a", "m">>
TodoLine == <<"#", " ", "T", "O", "D", "O", ":", " ", "f", "i", "x">>

\* code.py holds the one line, with or without a final newline; binary.bin
\* holds the bytes 00 01 02; libmagic is installed or not.
ExampleFsChoices ==
    { [p \in {Join(ExampleRoot, CodePy), Join(ExampleRoot, BinaryBin)} |->
          IF p = Join(ExampleRoot, CodePy) THEN File(code, TRUE, TRUE, m[1])
          ELSE File(<<"NUL", "SOH", "STX">>, TRUE, TRUE, m[2])] :
      code \in {TodoLine, TodoLine \o <<"\n">>},
      m \in {<<NoMime, NoMime>>, <<MimeTextPlain, MimeOctet>>, <<MimePython, MimeOctet>>} }

ExampleInit ==
    /\ rootState = "ok"
    /\ fs \in ExampleFsChoices
    /\ ignore_patterns \in {<<>>, HiddenPatterns, << <<"*", ".", "l", "o", "g">> >>}
    /\ max_lines = DefaultMaxLines /\ max_size = DefaultMaxSize
    /\ safe = TRUE
    /\ deep \in BOOLEAN
    /\ pc = "start"
    /\ stack = <<>> /\ current = <<>> /\ dirnames = <<>> /\ todo = <<>>
    /\ result = EmptyResult(<<>>)
    /\ yielded = {}
    /\ run = 1 /\ now = 1 /\ outputs = <<>>
    /\ EvalIdle /\ DiffIdle /\ AuxIdle

\* scan_repository(Path("/e"), ...), lines 77-78.
ExampleStart ==
    /\ pc = "start"
    /\ result' = EmptyResult(ExampleRoot)
    /\ stack' = <<ExampleRoot>>
    /\ current' = <<>> /\ dirnames' = <<>> /\ todo' = <<>>
    /\ yielded' = {}
    /\ pc' = "walk"
    /\ UNCHANGED <<rootState, fs, ignore_patterns, max_lines, max_size, safe, deep,
                   run, now, outputs, evalVars, diffVars, auxVars>>

\* policy.evaluate(path=record.path, lines=<the lines of the file>) for the
\* emitted records, one after the other.
RECURSIVE ViolationsOf(_, _, _)
ViolationsOf(policy, records, root) ==
    IF records = <<>> THEN <<>>
    ELSE Evaluate(policy, Head(records).path,
                  SplitLines(fs[Join(root, Head(records).path)].content, <<>>))
         \o ViolationsOf(policy, Tail(records), root)

\* The default policy is evaluated on the lines of every emitted file.
ExampleEvaluate ==
    /\ pc = "done"
    /\ ev_policy' = LoadDefaultPolicy(<<>>)
    /\ ev_out' = ViolationsOf(LoadDefaultPolicy(<<>>), result.files, result.root)
    /\ ev_pc' = "done"
    /\ pc' = "evaluated"
    /\ UNCHANGED <<rootState, fs, ignore_patterns, max_lines, max_size, safe, deep,
                   stack, current, dirnames, todo, result, yielded, run, now, outputs,
                   ev_path, ev_lines, diffVars, auxVars>>

ExampleNext == ExampleStart \/ WalkDir \/ ProcessFile \/ Finish \/ ExampleEvaluate

SpecExample == ExampleInit /\ [][ExampleNext]_vars

-----------------------------------------------------------------------------
(* atomic_write (utils.py 107-116) called concurrently on one path, and    *)
(* readers of that path.  A file is an inode; the path names one inode at  *)
(* a time; a reader keeps the inode it opened.                             *)

NumWriters == 2      \* concurrent calls of atomic_write on the path
NumReaders == 1      \* concurrent readers of the path
DataLen == 2         \* bytes of data per call, written one write(2) at a time

Writers == 1..NumWriters
Readers == 1..NumReaders

\* The bytes of the target before the calls, and the data of each call.
OldData == [i \in 1..DataLen |-> <<0, i>>]
Data(w) == [i \in 1..DataLen |-> <<w, i>>]

\* A call that writes into the file the path names, without a temp file.
WriteInode_InPlace(w) == aw_target

\* The inode a call writes its data to: its NamedTemporaryFile.
WriteInode(w) == w

\* write(2) of one byte at an offset of a file.
WriteAt(content, offset, byte) ==
    IF offset < Len(content) THEN [content EXCEPT ![offset + 1] = byte]
    ELSE Append(content, byte)

\* Everything atomic_write and the readers leave alone.
awOthers == <<scanVars, evalVars, diffVars, policyVars, mainVars, cliVars, extVars>>

AtomicInit ==
    /\ aw_files = [i \in 0..NumWriters |-> IF i = 0 THEN OldData ELSE <<>>]
    /\ aw_present \in BOOLEAN
    /\ aw_target = 0
    /\ aw_pc = [w \in Writers |-> [pc |-> "ready", written |-> 0]]
    /\ aw_last = 0
    /\ aw_rd = [r \in Readers |-> [pc |-> "ready", inode |-> 0, buf |-> <<>>]]
    /\ ScanIdle /\ EvalIdle /\ DiffIdle /\ PolicyIdle /\ MainIdle /\ CliIdle /\ ExtIdle

\* tempfile.NamedTemporaryFile(delete=False, dir=target.parent): a new,
\* empty file of a name no other call has.
AwCreate(w) ==
    /\ aw_pc[w].pc = "ready"
    /\ aw_pc' = [aw_pc EXCEPT ![w].pc = "writing"]
    /\ UNCHANGED <<aw_files, aw_present, aw_target, aw_last, aw_rd, awOthers>>

\* handle.write(data), as the write(2) calls that carry it out.
AwWrite(w) ==
    /\ aw_pc[w].pc = "writing" /\ aw_pc[w].written < DataLen
    /\ aw_files' = [aw_files EXCEPT ![WriteInode(w)] =
                       WriteAt(@, aw_pc[w].written, Data(w)[aw_pc[w].written + 1])]
    /\ aw_pc' = [aw_pc EXCEPT ![w].written = @ + 1]
    /\ UNCHANGED <<aw_present, aw_target, aw_last, aw_rd, awOthers>>

\* The with block is left: the file is closed; then chmod 0600.
AwClose(w) ==
    /\ aw_pc[w].pc = "writing" /\ aw_pc[w].written = DataLen
    /\ aw_pc' = [aw_pc EXCEPT ![w].pc = "closed"]
    /\ UNCHANGED <<aw_files, aw_present, aw_target, aw_last, aw_rd, awOthers>>

\* handle.write raises (the disk is full): the call ends, the temp file stays.
AwFail(w) ==
    /\ aw_pc[w].pc = "writing" /\ aw_pc[w].written < DataLen
    /\ aw_pc' = [aw_pc EXCEPT ![w].pc = "failed"]
    /\ UNCHANGED <<aw_files, aw_present, aw_target, aw_last, aw_rd, awOthers>>

\* os.replace(temp_name, target): the path names the temp file's inode from
\* now on; the call returns.
AwReplace(w) ==
    /\ aw_pc[w].pc = "closed"
    /\ aw_target' = WriteInode(w)
    /\ aw_present' = TRUE
    /\ aw_last' = w
    /\ aw_pc' = [aw_pc EXCEPT ![w].pc = "returned"]
    /\ UNCHANGED <<aw_files, aw_rd, awOthers>>

\* A reader opens the path: it holds the inode the path names now.
RdOpen(r) ==
    /\ aw_rd[r].pc = "ready"
    /\ aw_rd' = [aw_rd EXCEPT ![r] =
                    IF aw_present THEN [pc |-> "reading", inode |-> aw_target, buf |-> <<>>]
                    ELSE [pc |-> "enoent", inode |-> 0, buf |-> <<>>]]
    /\ UNCHANGED <<aw_files, aw_present, aw_target, aw_pc, aw_last, awOthers>>

\* The reader reads the next byte of its inode, or meets the end of file.
RdRead(r) ==
    /\ aw_rd[r].pc = "reading"
    /\ LET content == aw_files[aw_rd[r].inode]
           n == Len(aw_rd[r].buf)
       IN  aw_rd' = [aw_rd EXCEPT ![r] =
                        IF n < Len(content) THEN [@ EXCEPT !.buf = Append(@, content[n + 1])]
                        ELSE [@ EXCEPT !.pc = "read"]]
    /\ UNCHANGED <<aw_files, aw_present, aw_target, aw_pc, aw_last, awOthers>>

AtomicNext ==
    \/ \E w \in Writers : AwCreate(w)
    \/ \E w \in Writers : AwWrite(w)
    \/ \E w \in Writers : AwClose(w)
    \/ \E w \in Writers : AwFail(w)
    \/ \E w \in Writers : AwReplace(w)
    \/ \E r \in Readers : RdOpen(r)
    \/ \E r \in Readers : RdRead(r)

SpecAtomic == AtomicInit /\ [][AtomicNext]_vars

-----------------------------------------------------------------------------
-----------------------------------------------------------------------------
(* tools/dat2lrc.py: is_text_file, the classifier of the exporter.         *)
(* The bytes of a file are a sequence of runs <<byte, count>>, so that the *)
(* 4096-byte sniff window and the 5% and 70% ratios can be reached.        *)

MaxRuns == 2
SniffSize == 4096

BINARY_EXTENSIONS == {
    <<".", "e", "x", "e">>, <<".", "d", "l", "l">>, <<".", "s", "o">>,
    <<".", "d", "y", "l", "i", "b">>, <<".", "b", "i", "n">>,
    <<".", "a", "p", "p">>, <<".", "d", "m", "g">>, <<".", "p", "k", "g">>,
    <<".", "d", "e", "b">>, <<".", "r", "p", "m">>, <<".", "m", "s", "i">>,
    <<".", "z", "i", "p">>, <<".", "t", "a", "r">>, <<".", "g", "z">>,
    <<".", "7", "z">>, <<".", "r", "a", "r">>, <<".", "j", "p", "g">>,
    <<".", "j", "p", "e", "g">>, <<".", "p", "n", "g">>,
    <<".", "g", "i", "f">>, <<".", "b", "m", "p">>,
    <<".", "t", "i", "f", "f">>, <<".", "i", "c", "o">>,
    <<".", "s", "v", "g">>, <<".", "m", "p", "3">>, <<".", "m", "p", "4">>,
    <<".", "a", "v", "i">>, <<".", "m", "o", "v">>, <<".", "w", "a", "v">>,
    <<".", "f", "l", "a", "c">>, <<".", "p", "d", "f">>,
    <<".", "d", "o", "c">>, <<".", "d", "o", "c", "x">>,
    <<".", "x", "l", "s">>, <<".", "x", "l", "s", "x">>,
    <<".", "p", "p", "t">>, <<".", "p", "p", "t", "x">>
}

\* str.lower(), on the letters the suffixes below use
LowerChar(c) ==
    CASE c = "P" -> "p" [] c = "N" -> "n" [] c = "G" -> "g" [] OTHER -> c
Lower(s) == [i \in 1..Len(s) |-> LowerChar(s[i])]

RECURSIVE RunBytes(_)
\* len(bytes)
RunBytes(runs) ==
    IF runs = <<>> THEN 0 ELSE runs[1][2] + RunBytes(Tail(runs))

RECURSIVE TakeBytes(_, _)
\* f.read(n): the first n bytes
TakeBytes(runs, n) ==
    IF runs = <<>> \/ n = 0 THEN <<>>
    ELSE IF runs[1][2] >= n THEN << <<runs[1][1], n>> >>
    ELSE <<runs[1]>> \o TakeBytes(Tail(runs), n - runs[1][2])

RECURSIVE CountBytes(_, _)
\* the number of bytes of the sample whose value is in S
CountBytes(runs, S) ==
    IF runs = <<>> THEN 0
    ELSE (IF runs[1][1] \in S THEN runs[1][2] ELSE 0) + CountBytes(Tail(runs), S)

MimeXml == <<"a", "p", "p", "l", "i", "c", "a", "t", "i", "o", "n", "/", "x", "m", "l">>
MimeJavascript == <<"a", "p", "p", "l", "i", "c", "a", "t", "i", "o", "n", "/",
                    "j", "a", "v", "a", "s", "c", "r", "i", "p", "t">>
MimePostscript == <<"a", "p", "p", "l", "i", "c", "a", "t", "i", "o", "n", "/",
                    "p", "o", "s", "t", "s", "c", "r", "i", "p", "t">>

\* lines 101-108: the MIME guess says "text"; it never says "binary"
MimeSaysText(mt) ==
    /\ mt # NoMime
    /\ \/ IsPrefix(<<"t", "e", "x", "t", "/">>, mt)
       \/ mt \in {MimeXml, MimeJson, MimeJavascript}
       \/ /\ IsPrefix(<<"a", "p", "p", "l", "i", "c", "a", "t", "i", "o", "n", "/">>, mt)
          /\ Contains(<<"s", "c", "r", "i", "p", "t">>, mt)

\* lines 111-131. control_chars / total_chars < 0.05 and printable_chars /
\* total_chars > 0.7 in IEEE doubles: a quotient of two integers up to 4096
\* is rounded to the double nearest to it, as the literals 0.05 and 0.7 are,
\* and no other quotient comes within 1/(20*4096) of them, so the two
\* comparisons are those of the exact fractions.
CharacterDistribution(sample) ==
    LET control_chars == CountBytes(sample, (0..31) \ {9, 10, 13})
        printable_chars == CountBytes(sample, 32..126) + CountBytes(sample, 127..255)
        total_chars == RunBytes(sample)
    IN  IF total_chars = 0 THEN TRUE
        ELSE /\ 20 * control_chars < total_chars
             /\ 10 * printable_chars > 7 * total_chars

IsTextFile(f) ==
    IF Lower(f.suffix) \in BINARY_EXTENSIONS THEN FALSE
    ELSE IF ~f.statOK THEN FALSE                       \* OSError of p.stat()
    ELSE IF RunBytes(f.runs) = 0 THEN TRUE             \* st_size == 0
    ELSE IF ~f.readOK THEN FALSE                       \* OSError of p.open / f.read
    ELSE LET sample == TakeBytes(f.runs, SniffSize)
         IN  IF sample = <<>> THEN TRUE
             ELSE IF CountBytes(sample, {0}) > 0 THEN FALSE
             ELSE IF MimeSaysText(f.mime) THEN TRUE
             ELSE CharacterDistribution(sample)

\* NUL, a control character, LF, a letter, DEL and a high-bit byte
ByteChoices == {0, 1, 10, 97, 127, 200}
RunLengths == {1, 3, 7, 8, 19, 20, SniffSize - 1, SniffSize}
RunChoices == ByteChoices \X RunLengths
ByteRuns == UNION {[1..n -> RunChoices] : n \in 0..MaxRuns}
SuffixChoices == {<<>>, <<".", "p", "y">>, <<".", "b", "i", "n">>, <<".", "P", "N", "G">>}
GuessChoices == {NoMime, MimeTextPlain, MimeJson, MimePostscript, MimeOctet}
TextFiles ==
    [suffix : SuffixChoices, statOK : BOOLEAN, readOK : BOOLEAN,
     mime : GuessChoices, runs : ByteRuns]

TextInit ==
    /\ tx_pc = "call"
    /\ tx_file \in TextFiles
    /\ tx_out = FALSE
    /\ ScanIdle /\ EvalIdle /\ DiffIdle /\ PolicyIdle /\ MainIdle /\ CliIdle
    /\ AtomicIdle /\ BuiltinIdle /\ AuditIdle

TextCall ==
    /\ tx_pc = "call"
    /\ tx_out' = IsTextFile(tx_file)
    /\ tx_pc' = "done"
    /\ UNCHANGED <<tx_file, scanVars, evalVars, diffVars, policyVars, mainVars,
                   cliVars, awVars, builtinVars, auditVars>>

TextNext == TextCall

SpecText == TextInit /\ [][TextNext]_vars


-----------------------------------------------------------------------------
(* dat/rules.py: evaluate_rules, the built-in rules applied to the records *)
(* of a scan.                                                              *)

MaxRecords == 2

RuleFinding(rule_id, message, severity, path) ==
    [rule_id |-> rule_id, message |-> message, severity |-> severity, path |-> path]

\* DEFAULT_RULES of rules.py, as RULE_LOOKUP keeps them
RULE_LOOKUP ==
    [r \in {"no.todo", "no.merge"} |->
        IF r = "no.todo" THEN <<"TODO comment detected", "low">>
        ELSE <<"Potential merge conflict marker", "medium">>]

\* str.endswith
EndsWith(s, suffix) ==
    Len(suffix) <= Len(s) /\ SubSeq(s, Len(s) - Len(suffix) + 1, Len(s)) = suffix

DocSuffix == <<".", "m", "d">>
TodoMark == <<"T", "O", "D", "O">>
MergeLeft == <<"<", "<", "<", "<">>
MergeRight == <<">", ">", ">", ">">>

\* the loop body without its .md filter
FindingsOf_DocsToo(files_on_disk, record) ==
    IF record.binary THEN <<>>
    ELSE IF ~files_on_disk[record.path].readOK THEN <<>>
    ELSE LET text == files_on_disk[record.path].text
         IN  (IF Contains(TodoMark, text) /\ "no.todo" \in DOMAIN RULE_LOOKUP
              THEN <<RuleFinding("no.todo", RULE_LOOKUP["no.todo"][1],
                                 RULE_LOOKUP["no.todo"][2], record.path)>>
              ELSE <<>>)
             \o
             (IF (Contains(MergeLeft, text) \/ Contains(MergeRight, text))
                 /\ "no.merge" \in DOMAIN RULE_LOOKUP
              THEN <<RuleFinding("no.merge", RULE_LOOKUP["no.merge"][1],
                                 RULE_LOOKUP["no.merge"][2], record.path)>>
              ELSE <<>>)

\* lines 34-48: the body of the loop, for one record
FindingsOf(files_on_disk, record) ==
    IF record.binary THEN <<>>
    ELSE IF EndsWith(record.path, DocSuffix) THEN <<>>
    ELSE IF ~files_on_disk[record.path].readOK THEN <<>>      \* except Exception
    ELSE LET text == files_on_disk[record.path].text
         IN  (IF Contains(TodoMark, text) /\ "no.todo" \in DOMAIN RULE_LOOKUP
              THEN <<RuleFinding("no.todo", RULE_LOOKUP["no.todo"][1],
                                 RULE_LOOKUP["no.todo"][2], record.path)>>
              ELSE <<>>)
             \o
             (IF (Contains(MergeLeft, text) \/ Contains(MergeRight, text))
                 /\ "no.merge" \in DOMAIN RULE_LOOKUP
              THEN <<RuleFinding("no.merge", RULE_LOOKUP["no.merge"][1],
                                 RULE_LOOKUP["no.merge"][2], record.path)>>
              ELSE <<>>)

RECURSIVE EvaluateRules(_, _)
EvaluateRules(files_on_disk, files) ==
    IF files = <<>> THEN <<>>
    ELSE FindingsOf(files_on_disk, Head(files))
         \o EvaluateRules(files_on_disk, Tail(files))

\* a documentation file, a source file and a file whose name only ends in "md"
BuiltinPaths == {<<"a", ".", "m", "d">>, <<"b", ".", "p", "y">>, <<"c", "m", "d">>}
BuiltinTexts ==
    {<<"x">>, TodoMark, MergeLeft, <<"x">> \o MergeRight, TodoMark \o MergeLeft}
BuiltinDiskFiles ==
    {[readOK |-> FALSE, text |-> <<>>]} \cup {[readOK |-> TRUE, text |-> t] : t \in BuiltinTexts}
\* the records of one scan: each path at most once
BuiltinRecordLists ==
    {l \in UNION {[1..n -> [path : BuiltinPaths, binary : BOOLEAN]] : n \in 0..MaxRecords} :
        \A i, j \in 1..Len(l) : l[i].path = l[j].path => i = j}

BuiltinInit ==
    /\ br_pc = "call"
    /\ br_fs \in [BuiltinPaths -> BuiltinDiskFiles]
    /\ br_files \in BuiltinRecordLists
    /\ br_out = <<>>
    /\ ScanIdle /\ EvalIdle /\ DiffIdle /\ PolicyIdle /\ MainIdle /\ CliIdle
    /\ AtomicIdle /\ TextIdle /\ AuditIdle

BuiltinCall ==
    /\ br_pc = "call"
    /\ br_out' = EvaluateRules(br_fs, br_files)
    /\ br_pc' = "done"
    /\ UNCHANGED <<br_fs, br_files, scanVars, evalVars, diffVars, policyVars,
                   mainVars, cliVars, awVars, textVars, auditVars>>

BuiltinNext == BuiltinCall

SpecBuiltin == BuiltinInit /\ [][BuiltinNext]_vars

-----------------------------------------------------------------------------
(* A scan interrupted from outside. scan_repository has no handler and no  *)
(* cancellation check: a KeyboardInterrupt raised while it walks unwinds   *)
(* it, passes the `except Exception` of run_scan, and reaches the handler  *)
(* of main (cli.py 661-663), which returns 130. The ScanResult under       *)
(* construction is a local of the unwound frame: nothing is returned.      *)

CancelInit ==
    /\ ScanInit
    /\ m_pc = "scan" /\ m_args = NoArgs /\ m_config = JAbsent /\ m_schema = JNone
    /\ m_rules = <<>> /\ m_report = <<>> /\ m_events = {} /\ m_exit = 0
    /\ EvalIdle /\ DiffIdle /\ PolicyIdle /\ CliIdle /\ AtomicIdle /\ ExtIdle

ScanInterrupt ==
    /\ pc = "walk"
    /\ m_pc = "scan"
    /\ pc' = "interrupted"
    /\ Exit(130, "interrupted")
    /\ UNCHANGED <<rootState, fs, ignore_patterns, max_lines, max_size, safe, deep,
                   stack, current, dirnames, todo, result, yielded, run, now, outputs,
                   m_args, m_config, m_schema, m_rules, m_report,
                   evalVars, diffVars, policyVars, cliVars, awVars, extVars>>

CancelNext == Start \/ WalkDir \/ ProcessFile \/ Finish \/ ScanInterrupt

SpecCancel == CancelInit /\ [][CancelNext]_vars

-----------------------------------------------------------------------------
(* dat/logging/audit.py: append_encrypted_log, called by processes that    *)
(* share the config directory. Each file-system call is one step; the      *)
(* write_bytes of the key is an open that creates or truncates the file    *)
(* followed by a write.                                                    *)

NumLoggers == 2
MaxAppends == 2

Loggers == 1..NumLoggers

\* Fernet.generate_key(): a key no other call has generated
GenerateKey(p, n) == p * (MaxAppends + 1) + n

\* Fernet(key).encrypt(payload): a token only that key opens
Encrypt(key, payload) == [key |-> key, payload |-> payload]

auOthers == <<scanVars, evalVars, diffVars, policyVars, mainVars, cliVars, awVars,
              textVars, builtinVars>>

AuditInit ==
    /\ au_exists = FALSE /\ au_keydata = 0 /\ au_writes = 0 /\ au_log = <<>>
    /\ au_proc = [p \in Loggers |-> [pc |-> "idle", key |-> 0, calls |-> 0]]
    /\ ScanIdle /\ EvalIdle /\ DiffIdle /\ PolicyIdle /\ MainIdle /\ CliIdle
    /\ AtomicIdle /\ TextIdle /\ BuiltinIdle

\* append_encrypted_log is called; _ensure_key makes the directory.
AuCall(p) ==
    /\ au_proc[p].pc = "idle" /\ au_proc[p].calls < MaxAppends
    /\ au_proc' = [au_proc EXCEPT ![p].pc = "exists", ![p].calls = @ + 1]
    /\ UNCHANGED <<au_exists, au_keydata, au_writes, au_log, auOthers>>

\* line 27: if key_path.exists()
AuExists(p) ==
    /\ au_proc[p].pc = "exists"
    /\ au_proc' = [au_proc EXCEPT ![p].pc = IF au_exists THEN "read" ELSE "generate"]
    /\ UNCHANGED <<au_exists, au_keydata, au_writes, au_log, auOthers>>

\* line 28: return key_path.read_bytes()
AuReadKey(p) ==
    /\ au_proc[p].pc = "read"
    /\ au_proc' = [au_proc EXCEPT ![p].pc = "encrypt", ![p].key = au_keydata]
    /\ UNCHANGED <<au_exists, au_keydata, au_writes, au_log, auOthers>>

\* lines 29-30: a fresh key; write_bytes opens auditlog.key for writing
AuGenerate(p) ==
    /\ au_proc[p].pc = "generate"
    /\ au_proc' = [au_proc EXCEPT ![p].pc = "write",
                                  ![p].key = GenerateKey(p, au_proc[p].calls)]
    /\ au_exists' = TRUE
    /\ au_keydata' = 0
    /\ UNCHANGED <<au_writes, au_log, auOthers>>

\* line 30: write_bytes writes the key; lines 31-32: chmod, return key
AuWriteKey(p) ==
    /\ au_proc[p].pc = "write"
    /\ au_keydata' = au_proc[p].key
    /\ au_writes' = au_writes + 1
    /\ au_proc' = [au_proc EXCEPT ![p].pc = "encrypt"]
    /\ UNCHANGED <<au_exists, au_log, auOthers>>

\* lines 39-43: Fernet(key) raises ValueError on the empty key read from a
\* key file that was opened and not yet written; otherwise the token is
\* appended to the log as one line.
AuAppend(p) ==
    /\ au_proc[p].pc = "encrypt"
    /\ au_log' = IF au_proc[p].key = 0 THEN au_log
                 ELSE Append(au_log, Encrypt(au_proc[p].key, <<p, au_proc[p].calls>>))
    /\ au_proc' = [au_proc EXCEPT ![p].pc = "idle"]
    /\ UNCHANGED <<au_exists, au_keydata, au_writes, auOthers>>

AuditNext ==
    \/ \E p \in Loggers : AuCall(p)
    \/ \E p \in Loggers : AuExists(p)
    \/ \E p \in Loggers : AuReadKey(p)
    \/ \E p \in Loggers : AuGenerate(p)
    \/ \E p \in Loggers : AuWriteKey(p)
    \/ \E p \in Loggers : AuAppend(p)

SpecAudit == AuditInit /\ [][AuditNext]_vars

(* What the claims speak of, stated on the inputs and the returned result, *)
(* independently of the operators that model the code.                     *)

Returned == pc \in {"done", "written"}

\* The paths of the emitted records, and the listed paths.
EmittedPaths == {result.files[i].path : i \in 1..Len(result.files)}
SkippedPaths == Range(result.skipped)
\* The files met by the walk that have an entry "<path>: <message>" in errors.
ErroredFiles == {p \in yielded : \E i \in 1..Len(result.errors) :
                    /\ IsPrefix(p \o <<":", " ">>, result.errors[i])
                    /\ Len(result.errors[i]) > Len(p) + 2}
Rel(p) == SubSeq(p, Len(Root) + 2, Len(p))

\* The file matches an ignore glob, by its base name or by its path string.
MatchesIgnoreGlob(p) ==
    \E i \in 1..Len(ignore_patterns) :
        FnMatch(Name(p), ignore_patterns[i]) \/ FnMatch(p, ignore_patterns[i])

\* The size and the number of lines of the file's content.
SizeOf(p) == Len(fs[p].content)
LineCountOf(p) == Len(SplitLines(fs[p].content, <<>>))

\* The record emitted for a file, if any.
RecordsOf(p) == {result.files[i] : i \in {j \in 1..Len(result.files) :
                                             result.files[j].path = Rel(p)}}

-----------------------------------------------------------------------------
(* C1: after scan_repository returns, every file the walk encountered is   *)
(* in exactly one of result.files, result.skipped and result.errors: no    *)
(* list holds a path twice, the three sets of paths are pairwise disjoint  *)
(* and their union is the set of the encountered files.                    *)
C1_Partition ==
    Returned =>
        LET errored == {Rel(p) : p \in ErroredFiles}
        IN  /\ Cardinality(EmittedPaths) = Len(result.files)
            /\ Cardinality(SkippedPaths) = Len(result.skipped)
            /\ Cardinality(ErroredFiles) = Len(result.errors)
            /\ EmittedPaths \cap SkippedPaths = {}
            /\ EmittedPaths \cap errored = {}
            /\ SkippedPaths \cap errored = {}
            /\ EmittedPaths \cup SkippedPaths \cup errored = {Rel(p) : p \in yielded}

\* A returned scan with an emitted, a skipped and an errored file.
C1_Witness ==
    /\ pc = "done"
    /\ result.files # <<>> /\ result.skipped # <<>> /\ result.errors # <<>>

(* C2, as claimed: every file of the tree that matches an ignore glob is   *)
(* absent from result.files and present in result.skipped.  (Stated here   *)
(* for a root that can be listed; the claim makes no such restriction.)    *)
C2_IgnoredFileIsSkipped ==
    (pc = "done" /\ rootState = "ok") =>
        \A p \in DOMAIN fs :
            MatchesIgnoreGlob(p) => Rel(p) \notin EmittedPaths /\ Rel(p) \in SkippedPaths

(* C2, amended: every file the walk encounters (one that does not lie      *)
(* below a pruned directory) and that matches an ignore glob is absent     *)
(* from result.files and present in result.skipped.                        *)
C2_EncounteredIgnoredFileIsSkipped ==
    Returned =>
        \A p \in yielded :
            MatchesIgnoreGlob(p) => Rel(p) \notin EmittedPaths /\ Rel(p) \in SkippedPaths

\* A returned scan that met a file matching a glob by its path string only,
\* and one that met a file matching by its base name.
C2_Witness ==
    /\ pc = "done"
    /\ \E p \in yielded :
          /\ MatchesIgnoreGlob(p)
          /\ \A i \in 1..Len(ignore_patterns) : ~FnMatch(Name(p), ignore_patterns[i])
          /\ Rel(p) \in SkippedPaths

C4_DeepEmitsEveryTextFile ==
    (pc = "done" /\ deep) =>
        \A p \in yielded :
            (~MatchesIgnoreGlob(p) /\ fs[p].statOK /\ ~IsBinary(fs[p]))
            => Rel(p) \in EmittedPaths

(* C5, as claimed: whenever deep=true, for either value of safe, every     *)
(* non-ignored binary file met by the walk is emitted in result.files      *)
(* with binary=true and lines=0, and is absent from result.skipped.        *)
C5_DeepEmitsBinaryFiles ==
    (pc = "done" /\ deep) =>
        \A p \in yielded :
            (~MatchesIgnoreGlob(p) /\ fs[p].statOK /\ IsBinary(fs[p]))
            => /\ \E r \in RecordsOf(p) : r.binary /\ r.lines = 0
               /\ Rel(p) \notin SkippedPaths

(* C8, as claimed: every per-file I/O error met during the walk (stat      *)
(* fails, or the content cannot be read) is recorded: the file has an      *)
(* entry in result.errors, stats.errors counts it, the file is not in      *)
(* result.files, and the walk goes on to the remaining files.              *)
C8_IOErrorsAreRecorded ==
    pc = "done" =>
        LET failing == {p \in yielded :
                           ~MatchesIgnoreGlob(p) /\ (~fs[p].statOK \/ ~fs[p].readOK)}
        IN  /\ \A p \in failing : p \in ErroredFiles /\ Rel(p) \notin EmittedPaths
            /\ result.stats.errors = Cardinality(failing)

(* C9, as claimed: a scan whose root does not exist or cannot be read      *)
(* returns no ScanResult.                                                  *)
C9_NoResultForBadRoot ==
    pc = "done" => rootState = "ok"

-----------------------------------------------------------------------------
(* C6: Policy.evaluate returns exactly one violation for every triple      *)
(* (line i, rule r, pattern p of r) such that p is a substring of the      *)
(* whitespace-trimmed line i, carrying r's rule_id and severity, the       *)
(* given path and line_number i: no triple is dropped, none is reported    *)
(* twice, nothing else is reported, and a line without a match             *)
(* contributes nothing.                                                    *)
C6_Triples ==
    {t \in (1..Len(ev_lines)) \X (1..Len(ev_policy)) \X (1..3) :
        /\ t[3] <= Len(ev_policy[t[2]].patterns)
        /\ Contains(ev_policy[t[2]].patterns[t[3]], Strip(ev_lines[t[1]]))}
C6_Expected(t) ==
    [rule_id |-> ev_policy[t[2]].rule_id, severity |-> ev_policy[t[2]].severity,
     message |-> <<"Matched pattern", ev_policy[t[2]].patterns[t[3]]>>,
     path |-> ev_path, line_number |-> t[1]]
C6_OneViolationPerMatch ==
    ev_pc = "done" =>
        /\ Len(ev_out) = Cardinality(C6_Triples)
        /\ \A v \in Range(ev_out) \cup {C6_Expected(t) : t \in C6_Triples} :
              Cardinality({k \in 1..Len(ev_out) : ev_out[k] = v})
                  = Cardinality({t \in C6_Triples : C6_Expected(t) = v})

\* An evaluation in which one line matched two patterns of one rule and
\* another line matched nothing; and the example of the specification.
C6_Witness ==
    /\ ev_pc = "done"
    /\ \/ /\ Len(ev_lines) = 2
          /\ \E i \in 1..2, r \in 1..Len(ev_policy) :
                Cardinality({t \in C6_Triples : t[1] = i /\ t[2] = r}) = 2
          /\ \E i \in 1..2 : \A t \in C6_Triples : t[1] # i
       \/ /\ ev_policy = DEFAULT_RULES
          /\ ev_lines = << <<"A", "P", "I", "_", "K", "E", "Y", "=", "1", "2", "3">> >>
          /\ Len(ev_out) = 1
          /\ ev_out[1].rule_id = "secrets.api_key" /\ ev_out[1].severity = "high"

(* C7: the comparison of the previous report with the current one is      *)
(* decided per path: whenever some path present in both reports has        *)
(* strictly more violations in the current one, a regression is reported,  *)
(* also when the total number of violations did not increase.              *)
C7_RegressionIsPerPath ==
    (df_pc = "done" /\ df_previous.valid) =>
        LET regressed == {p \in DOMAIN df_previous.files \cap DOMAIN df_current :
                             df_current[p] > df_previous.files[p]}
        IN  regressed # {} => df_message = "Regressions detected"

-----------------------------------------------------------------------------
(* C11: whatever the order in which the walk lists directories and file    *)
(* names, the returned result has result.files strictly ascending by path  *)
(* (so no path twice), result.skipped and result.errors ascending, and     *)
(* the second scan of the tree returns the same files, skipped, errors     *)
(* and stats as the first one did.                                         *)
C11_Ascending(s) ==
    \A i \in 1..(Len(s) - 1) : s[i] = s[i + 1] \/ StrLess(s[i], s[i + 1])
C11_SortedAndOrderIndependent ==
    Returned =>
        /\ \A i \in 1..(Len(result.files) - 1) :
              StrLess(result.files[i].path, result.files[i + 1].path)
        /\ C11_Ascending(result.skipped)
        /\ C11_Ascending(result.errors)
        /\ (run = 2 /\ Len(outputs) >= 1) =>
              LET first == outputs[1].report
              IN  /\ result.skipped = first.skipped
                  /\ result.errors = first.errors
                  /\ result.stats = first.stats
                  /\ Len(result.files) = Len(first.files)
                  /\ \A i \in 1..Len(result.files) :
                        /\ result.files[i].path = first.files[i].path
                        /\ result.files[i].size = first.files[i].size
                        /\ result.files[i].lines = first.files[i].lines
                        /\ result.files[i].binary = first.files[i].binary

\* A second scan that returned at least two records and two skipped paths.
C11_Witness ==
    /\ pc = "done" /\ run = 2
    /\ Len(result.files) >= 2 /\ Len(result.skipped) >= 2

(* C12, as claimed: in every policy load_default_policy returns, for any   *)
(* list of extra rules, the rule ids are pairwise distinct.                *)
C12_RuleIdsDistinct ==
    lp_pc = "done" =>
        \A i, j \in 1..Len(lp_policy) :
            lp_policy[i].rule_id = lp_policy[j].rule_id => i = j

(* C13: a malformed LRC policy schema gives an empty rule set and never    *)
(* aborts the scan: once the scan step was reached with --lrc, a config    *)
(* that is not JSON or not an object, schemas that are no objects, and a   *)
(* schema whose 'rules' is missing or no list all give no rule; rule       *)
(* entries that are no objects are dropped and the objects are kept in     *)
(* order; and no run ends before the scan step because of the config.      *)
C13_SchemasOf(config) ==
    IF config.kind = "dict" /\ config.schemas.kind = "list" THEN config.schemas.items
    ELSE <<>>
C13_Malformed(config) ==
    \/ config.kind \in {"invalid", "list"}
    \/ config.kind = "dict" /\ config.schemas.kind \notin {"list", "missing"}
    \/ \E i \in 1..Len(C13_SchemasOf(config)) : C13_SchemasOf(config)[i].kind # "dict"
    \/ /\ C13_SchemasOf(config) # <<>>
       /\ \A i \in 1..Len(C13_SchemasOf(config)) :
             /\ C13_SchemasOf(config)[i].kind = "dict"
             /\ C13_SchemasOf(config)[i].rules.kind # "list"
C13_ScanReached == m_events \cap {"report", "scan_failed"} # {}
C14_ExitCodeRule ==
    IF m_events \cap {"invalid", "scan_failed", "exception"} # {} THEN m_exit = 1
    ELSE /\ m_exit = 3 <=> TotalViolations(m_report) > 0
         /\ m_exit = 0 <=> TotalViolations(m_report) = 0
IsHidden(p) ==
    \/ Head(Rel(p)) = "."
    \/ \E i \in 1..(Len(Rel(p)) - 1) : Rel(p)[i] = "/" /\ Rel(p)[i + 1] = "."

\* The file belongs to the selection made with -f FOLDER or -s FILE.
Selected(p) ==
    IF cli_args.folder # <<>>
      THEN \E n \in 1..Len(cli_args.folder) :
              /\ cli_args.folder[n] # "/"
              /\ \A k \in (n + 1)..Len(cli_args.folder) : cli_args.folder[k] = "/"
              /\ IsPrefix(SubSeq(cli_args.folder, 1, n) \o <<"/">>, Rel(p))
    ELSE Rel(p) = cli_args.single_file

(* C15, as claimed: with -f FOLDER (resp. -s FILE) the patterns built by   *)
(* build_custom_ignore_patterns keep the selection and ignore the rest:    *)
(* every non-hidden file of the selection (stat-able, and text when the    *)
(* mode is safe) is among the scanned files, and no file outside the       *)
(* selection is.                                                           *)
C15_SelectionIsKept ==
    (pc = "done" /\ (cli_args.folder = <<>>) # (cli_args.single_file = <<>>)) =>
        \A p \in AllFiles :
            /\ (Selected(p) /\ ~IsHidden(p) /\ fs[p].statOK /\ (safe => ~IsBinary(fs[p])))
                  => Rel(p) \in EmittedPaths
            /\ ~Selected(p) => Rel(p) \notin EmittedPaths

(* C16: without --all no hidden file (a name starting with '.', or a file  *)
(* below a directory whose name starts with '.') is among the scanned      *)
(* files; with --all and no -f, -s or --ignore no file is ignored: every   *)
(* file of the tree is met by the walk, and a file is skipped only for     *)
(* being binary in a safe mode.                                            *)
C16_HiddenExcludedUnlessAll ==
    pc = "done" =>
        /\ ~cli_args.all => \A p \in AllFiles : IsHidden(p) => Rel(p) \notin EmittedPaths
        /\ (/\ cli_args.all /\ cli_args.folder = <<>> /\ cli_args.single_file = <<>>
            /\ cli_args.ignore = <<>>)
           => /\ yielded = AllFiles
              /\ \A p \in AllFiles :
                    Rel(p) \in SkippedPaths => (safe /\ IsBinary(fs[p]))

\* A scan without --all and without a selection that emitted a file, met a
\* hidden file and skipped it, and never listed the hidden directory.
C16_Witness ==
    /\ pc = "done" /\ ~cli_args.all
    /\ cli_args.folder = <<>> /\ cli_args.single_file = <<>>
    /\ result.files # <<>>
    /\ FileH \in yielded /\ Rel(FileH) \in SkippedPaths
    /\ FileC \notin yielded

(* C17, as claimed: for the root holding code.py ("# TODO: fix") and       *)
(* binary.bin (bytes 00 01 02), scanned with safe=true, result.files holds *)
(* code.py only and the default policy gives exactly one violation, with   *)
(* rule_id "compliance.todo", severity "low", path "code.py" and           *)
(* line_number 2.                                                          *)
C17_OneViolation(line_number) ==
    /\ Len(result.files) = 1
    /\ result.files[1].path = CodePy
    /\ Len(ev_out) = 1
    /\ ev_out[1].rule_id = "compliance.todo"
    /\ ev_out[1].severity = "low"
    /\ ev_out[1].path = CodePy
    /\ ev_out[1].line_number = line_number
C17_ExampleLineTwo ==
    pc = "evaluated" => C17_OneViolation(2)

(* C17, amended: the same with line_number 1, the TODO being on the first  *)
(* line of code.py.                                                        *)
C17_ExampleLineOne ==
    pc = "evaluated" => C17_OneViolation(1)

\* The example evaluated, without libmagic, binary.bin listed first and
\* skipped as binary.
C17_Witness ==
    /\ pc = "evaluated"
    /\ \A p \in DOMAIN fs : fs[p].mime = NoMime
    /\ result.skipped = <<BinaryBin>>
    /\ result.stats.binary = 1
    /\ Len(ev_out) = 1

(* C18: atomic_write persists data atomically: at every step, under every  *)
(* interleaving of concurrent calls on one path with readers of it, the    *)
(* target holds its complete previous content or the complete data of one  *)
(* of the calls, and so does everything a reader has read to the end;      *)
(* what a reader has read so far is a prefix of one of these; and once a   *)
(* call has returned with no later replace, the target holds its data.     *)
C18_Complete == {OldData} \cup {Data(w) : w \in Writers}
C18_AtomicReplace ==
    aw_pc # <<>> =>
        /\ aw_present => aw_files[aw_target] \in C18_Complete
        /\ \A r \in Readers :
              /\ aw_rd[r].pc = "read" => aw_rd[r].buf \in C18_Complete
              /\ \E c \in C18_Complete : IsPrefix(aw_rd[r].buf, c)
        /\ \A w \in Writers :
              (aw_pc[w].pc = "returned" /\ aw_last = w)
              => aw_present /\ aw_files[aw_target] = Data(w)

\* Both calls have returned, the second replace came from writer 1, and a
\* reader that opened the path before it has read the other call's data to
\* the end.
C18_Witness ==
    /\ aw_pc # <<>>
    /\ \A w \in Writers : aw_pc[w].pc = "returned"
    /\ aw_last = 1
    /\ \E r \in Readers : aw_rd[r].pc = "read" /\ aw_rd[r].buf # Data(1)
                          /\ aw_rd[r].buf # OldData

(* C19: a file below a sub-directory that matches an ignore pattern is     *)
(* pruned with its directory: at no step of the scan has the walk listed   *)
(* it (so it is never stat'ed, classified or line-counted), it is in none  *)
(* of result.files, result.skipped and result.errors, and the counters     *)
(* count the listed files only.                                            *)
C19_Below(d) == {p \in DOMAIN fs : IsPrefix(d \o <<"/">>, p)}
C19_PrunedFilesAreUntouched ==
    (rootState = "ok" /\ pc \in {"walk", "done", "written"}) =>
        /\ \A d \in AllDirs \ {Root} :
              MatchesIgnoreGlob(d) =>
                  \A p \in C19_Below(d) :
                      /\ p \notin yielded
                      /\ Rel(p) \notin EmittedPaths \cup SkippedPaths
                      /\ \A i \in 1..Len(result.errors) : ~IsPrefix(p, result.errors[i])
        /\ result.stats.scanned + result.stats.skipped + result.stats.errors
              = Cardinality(yielded) - Len(todo)
        /\ Returned =>
              result.stats.binary
                  = Cardinality({p \in yielded : /\ ~MatchesIgnoreGlob(p) /\ fs[p].statOK
                                                 /\ IsBinary(fs[p])})

\* A returned scan that pruned a directory holding a file which matches no
\* pattern itself, and that listed other files.
C19_Witness ==
    /\ pc = "done" /\ rootState = "ok"
    /\ \E d \in AllDirs \ {Root} :
          /\ MatchesIgnoreGlob(d)
          /\ \E p \in C19_Below(d) : ~MatchesIgnoreGlob(p) /\ p \notin yielded
    /\ result.files # <<>>

(* C20, as claimed: for a readable text file of n lines the line count     *)
(* recorded is n when deep is true, and min(n, max_lines + 1) when deep is *)
(* false, for every max_lines >= 0.                                        *)
C20_LineCountIsBounded ==
    pc = "done" =>
        \A p \in yielded : \A r \in RecordsOf(p) :
            (~IsBinary(fs[p]) /\ fs[p].readOK)
            => r.lines = IF deep THEN LineCountOf(p)
                         ELSE Min(LineCountOf(p), max_lines + 1)

(* C21: the violations Policy.evaluate returns are ordered by line number  *)
(* ascending, then by the rule's position in the policy, then by the       *)
(* pattern's position in the rule: the k-th violation is the one of the    *)
(* k-th matching (line, rule, pattern) triple in lexicographic order; and  *)
(* every line_number lies between 1 and the number of lines given.         *)
C21_Before(s, t) ==
    \/ s[1] < t[1]
    \/ s[1] = t[1] /\ s[2] < t[2]
    \/ s[1] = t[1] /\ s[2] = t[2] /\ s[3] < t[3]
C21_Rank(t) == Cardinality({s \in C6_Triples : C21_Before(s, t)}) + 1
C21_OrderedByLineRulePattern ==
    ev_pc = "done" =>
        /\ Len(ev_out) = Cardinality(C6_Triples)
        /\ \A t \in C6_Triples : ev_out[C21_Rank(t)] = C6_Expected(t)
        /\ \A k \in 1..Len(ev_out) : ev_out[k].line_number \in 1..Len(ev_lines)

\* An evaluation with matches on two lines, of two rules on one line and of
\* two patterns of one rule on one line.
C21_Witness ==
    /\ ev_pc = "done" /\ ev_path # <<>>
    /\ \E s, t \in C6_Triples : s[1] # t[1]
    /\ \E s, t \in C6_Triples : s[1] = t[1] /\ s[2] # t[2]
    /\ \E s, t \in C6_Triples : s[1] = t[1] /\ s[2] = t[2] /\ s[3] # t[3]

(* C22, as claimed: when an I/O error occurs while a file is classified,   *)
(* the classifier reports it as binary: a stat-able file whose content     *)
(* cannot be read is counted as binary, never emitted with binary=false,   *)
(* and skipped as binary in a safe scan.                                   *)
C22_UnreadableIsBinary ==
    pc = "done" =>
        \A p \in yielded :
            (~MatchesIgnoreGlob(p) /\ fs[p].statOK /\ ~fs[p].readOK)
            => /\ \A r \in RecordsOf(p) : r.binary
               /\ safe => Rel(p) \in SkippedPaths
               /\ result.stats.binary >= 1

(* C23, as claimed: every non-empty file with a NUL byte in its first 4096 *)
(* bytes is classified as binary, whatever the MIME lookup says: it is     *)
(* never emitted with binary=false, and a safe scan skips it.              *)
C23_NulMeansBinary ==
    pc = "done" =>
        \A p \in yielded :
            (/\ ~MatchesIgnoreGlob(p) /\ fs[p].statOK /\ fs[p].readOK
             /\ "NUL" \in Range(fs[p].content))
            => /\ \A r \in RecordsOf(p) : r.binary
               /\ safe => Rel(p) \in SkippedPaths

(* C24, as claimed: when the file can be read, its sample holds no NUL and *)
(* the MIME guess is not decisive, is_text_file answers "text" iff less    *)
(* than 5% of the sample's bytes are ASCII control characters other than   *)
(* tab, LF and CR and more than 70% are printable ASCII or high-bit bytes. *)
C24_AsciiControl == ((0..31) \cup {127}) \ {9, 10, 13}
C24_PrintableOrHigh == (32..126) \cup (128..255)
C24_Undecided ==
    /\ tx_pc = "done"
    /\ Lower(tx_file.suffix) \notin BINARY_EXTENSIONS
    /\ tx_file.statOK /\ tx_file.readOK
    /\ tx_file.runs # <<>>
    /\ \A i \in 1..Len(tx_file.runs) :
          tx_file.runs[i][1] = 0 =>
              RunBytes(SubSeq(tx_file.runs, 1, i - 1)) >= 4096
    /\ ~MimeSaysText(tx_file.mime)
C24_Sample == TakeBytes(tx_file.runs, 4096)
C24_HeuristicDecides ==
    C24_Undecided =>
        (tx_out <=> /\ 20 * CountBytes(C24_Sample, C24_AsciiControl) < RunBytes(C24_Sample)
                    /\ 10 * CountBytes(C24_Sample, C24_PrintableOrHigh)
                           > 7 * RunBytes(C24_Sample))

(* C25: evaluate_rules gives no finding for a record marked binary, for a  *)
(* path ending in .md or for a file that cannot be read: every finding     *)
(* carries the path of a non-binary, non-documentation, readable record of *)
(* the scan, and a rule id of the built-in rules.                          *)
C25_Qualifies(record) ==
    /\ ~record.binary
    /\ ~(Len(record.path) >= 3
         /\ SubSeq(record.path, Len(record.path) - 2, Len(record.path)) = <<".", "m", "d">>)
    /\ br_fs[record.path].readOK
C25_FindingsOnlyForQualifyingRecords ==
    br_pc = "done" =>
        /\ \A k \in 1..Len(br_out) :
              /\ \E i \in 1..Len(br_files) :
                    br_files[i].path = br_out[k].path /\ C25_Qualifies(br_files[i])
              /\ br_out[k].rule_id \in {"no.todo", "no.merge"}
        /\ \A i \in 1..Len(br_files) :
              ~C25_Qualifies(br_files[i])
              => \A k \in 1..Len(br_out) : br_out[k].path # br_files[i].path
C25_Witness ==
    /\ br_pc = "done"
    /\ br_out # <<>>
    /\ \E i \in 1..Len(br_files) :
          /\ ~br_files[i].binary
          /\ br_files[i].path = <<"a", ".", "m", "d">>
          /\ br_fs[br_files[i].path] = [readOK |-> TRUE, text |-> <<"T", "O", "D", "O">>]

(* C26, as claimed: a scan cancelled from outside while it walks returns   *)
(* a partial ScanResult whose counters match its lists and whose files,    *)
(* skipped and errors hold the files processed so far.                     *)
C26_CancelledScanReturnsPartialResult ==
    pc = "interrupted" =>
        /\ Returned
        /\ result.stats.scanned = Len(result.files)
        /\ result.stats.skipped = Len(result.skipped)
        /\ result.stats.errors = Len(result.errors)

(* C27: at every point of the walk and in the returned ScanResult,         *)
(* stats.scanned = len(files), stats.skipped = len(skipped) and            *)
(* stats.errors = len(errors); stats.binary is at least the number of      *)
(* records of files with binary=true and at most the number of non-ignored *)
(* files met so far that could be stat'ed.                                 *)
C27_BinaryRecords == {i \in 1..Len(result.files) : result.files[i].binary}
C27_CountersMatchLists ==
    /\ result.stats.scanned = Len(result.files)
    /\ result.stats.skipped = Len(result.skipped)
    /\ result.stats.errors = Len(result.errors)
    /\ result.stats.binary >= Cardinality(C27_BinaryRecords)
    /\ result.stats.binary
          <= Cardinality({p \in yielded : ~MatchesIgnoreGlob(p) /\ fs[p].statOK})

\* In the middle of a walk: a binary file was emitted, a file was skipped,
\* a stat() failed, and directories are still to be listed.
C27_Witness ==
    /\ pc = "walk" /\ Pending # <<>>
    /\ result.files # <<>> /\ result.skipped # <<>> /\ result.errors # <<>>
    /\ C27_BinaryRecords # {}

(* C28: under safe=true every record of result.files has binary=false and  *)
(* size <= max_size and, when deep=false, lines <= max_lines; the tests    *)
(* are strict, so a non-ignored text file whose size is at most max_size   *)
(* and whose line count is at most max_lines (the limits included) is      *)
(* emitted, not skipped. Under safe=false result.skipped holds only files  *)
(* that match an ignore pattern.                                           *)
C28_SafeBoundsAndBoundaries ==
    Returned =>
        /\ safe =>
              /\ \A i \in 1..Len(result.files) :
                    /\ ~result.files[i].binary
                    /\ result.files[i].size <= max_size
                    /\ ~deep => result.files[i].lines <= max_lines
              /\ \A p \in yielded :
                    (/\ ~MatchesIgnoreGlob(p) /\ fs[p].statOK /\ fs[p].readOK
                     /\ ~IsBinary(fs[p])
                     /\ SizeOf(p) <= max_size
                     /\ (deep \/ LineCountOf(p) <= max_lines))
                    => Rel(p) \in EmittedPaths /\ Rel(p) \notin SkippedPaths
        /\ ~safe =>
              \A p \in yielded : Rel(p) \in SkippedPaths => MatchesIgnoreGlob(p)

\* A safe, shallow scan that emitted a file of exactly max_size bytes and
\* exactly max_lines lines, both limits positive.
C28_Witness ==
    /\ pc = "done" /\ safe /\ ~deep /\ max_size > 0 /\ max_lines > 0
    /\ \E p \in yielded :
          /\ SizeOf(p) = max_size /\ LineCountOf(p) = max_lines
          /\ Rel(p) \in EmittedPaths

(* C29: for every combination of --deep, --fast and --audit the parameters *)
(* of determine_scan_mode have safe = not deep, and so has the scan that   *)
(* run_scan starts; --deep wins over --fast (deep scan, no limits), and    *)
(* --fast wins over --audit (safe scan with the limits of the fast mode).  *)
C29_SafeIsNotDeep ==
    pc # "args" =>
        LET params == DetermineScanMode(cli_args)
        IN  /\ params.safe = ~params.deep
            /\ safe = params.safe /\ deep = params.deep
            /\ safe = ~deep
            /\ cli_args.deep => deep /\ params.max_lines = <<>>
            /\ (~cli_args.deep /\ cli_args.fast) => safe /\ params.max_lines = <<500>>
            /\ (~cli_args.deep /\ ~cli_args.fast /\ cli_args.audit) => deep
            /\ (~cli_args.deep /\ ~cli_args.fast /\ ~cli_args.audit)
                  => safe /\ params.max_lines = <<1000>>

\* A finished scan started with --fast and --audit together, which skipped a
\* file for its content.
C29_Witness ==
    /\ pc = "done"
    /\ ~cli_args.deep /\ cli_args.fast /\ cli_args.audit
    /\ safe /\ ~deep
    /\ \E p \in yielded : ~MatchesIgnoreGlob(p) /\ Rel(p) \in SkippedPaths

(* C30, as claimed: after any interleaving of append_encrypted_log calls   *)
(* the key file has been written at most once and every entry of the audit *)
(* log is encrypted under the key now stored in the key file.              *)
C30_OneKeyForEveryEntry ==
    /\ au_writes <= 1
    /\ \A i \in 1..Len(au_log) : au_exists /\ au_log[i].key = au_keydata

(* C30, the append-only part: a step never changes or removes an entry     *)
(* that is already in the log; it adds at most one line at the end.        *)
C30_AppendOnly ==
    [][/\ Len(au_log') \in {Len(au_log), Len(au_log) + 1}
       /\ SubSeq(au_log', 1, Len(au_log)) = au_log]_vars

====
